---- MODULE Spec2Model ----
(***************************************************************************)
(* Ingestion core of the dashboard backend: the durable job queue          *)
(* (src/repositories/jobs.repo.ts), the worker loop (src/workers/worker.ts)*)
(* and the shared token-bucket governor (src/workers/ingest/rateLimiter.ts,*)
(* carried in src/src/workers/ingest/ingestWallet.job.ts lines 151-677).    *)
(*                                                                         *)
(* Time is a single wall clock `now` in milliseconds (SQL NOW(), Date.now()*)
(* ).  Token amounts are integers in units of 1/100000 token so that       *)
(* elapsedMs * refillRate (0.67 tokens/s) is exact.                         *)
(***************************************************************************)
EXTENDS Integers, Sequences, FiniteSets, Bags, TLC

\* ----------------------------------------------------------------------
\* Bounds of the model
\* ----------------------------------------------------------------------
MaxJobs == 2
MaxTime == 1400000
AttemptsBound == 2
RetryBound == 12
MaxGovTime == 65000
GovStep == 10000
MaxIngestJobs == 6
MaxBackfills == 2
MaxCrashBackfills == 1
MaxIngestTime == 5000
MaxCrashTime == 310000
MaxCancelJobs == 3

\* ----------------------------------------------------------------------
\* Program constants
\* ----------------------------------------------------------------------
LOCK_DURATION_SECONDS == 300
RATE_LIMIT_BACKOFF_MS == 10000
WINDOW_MS == 60 * 1000
TokenUnit == 100 * 1000
ItemsChoices == {0, 400}
DEFAULT_MAX_ATTEMPTS == 10
WORKER_CLAIM_LIMIT == 5

NULL == -1
NoWorker == "none"
NoError == "none"

Workers == {"w1", "w2"}
Orgs == {"o1", "o2"}
ORG_ID == [w \in Workers |-> "o1"]
JobTypes == {"ingest_wallet", "rollup_wallet_day", "rollup_global_day"}
Wallets == {1}
\* The (org, type, wallet) combinations that are enqueued.
JobKinds ==
  { <<"o1", "ingest_wallet", 1>>, <<"o1", "rollup_wallet_day", 1>>, <<"o2", "ingest_wallet", 1>> }
\* No caller of createJob / enqueueJob passes runAt.
RunAtChoices == {NULL}
\* worker.ts claims with limit 5; limit 1 makes LIMIT bind with MaxJobs rows.
ClaimLimits == {1, WORKER_CLAIM_LIMIT}
\* Workers that may be killed; the others keep running their claim loop.
Crashable == {"w1"}

VARIABLES
  now,      \* wall clock, ms
  jobs,     \* table public.jobs: sequence of rows, id = index
  pc,       \* per worker: position in runWorkerLoop
  batch,    \* per worker: rows returned by the last claim and not yet handled
  rl,       \* table public.rate_limit_state: the single row
  rowLock,  \* caller holding the FOR UPDATE lock on the row, or NoWorker
  seen,     \* per caller: the row as returned by its SELECT ... FOR UPDATE
  gpc,      \* per caller: position in distributedAcquire / the upstream call
  wake,     \* per caller: instant at which its setTimeout fires
  winStart, \* history: start of the observed 60-second window, or NULL
  winCount, \* history: debiting Acquire calls inside the observed window
  cursor,   \* table public.hl_ingest_cursor of the org: wallet -> row or NoCursor
  registering, \* wallets with a registerWallet call between COMMIT and backfill
  upstream, \* fills the exchange holds, per wallet
  rawFills, \* table public.hl_fills_raw: bag of rows
  walletDay, \* table public.wallet_day_metrics: set of rows
  globalDay, \* table public.global_day_metrics: set of rows
  jobDays,  \* payload.days of the jobs, by job id
  run,      \* per worker: local variables of the ingestWallet call in progress
  lastTick, \* history: capacity, jobs created and jobs pending at the last tick
  limiter,  \* one process: module state of the rate limiter (config, localLimiter)
  conn,     \* per caller: pooled connections its distributedAcquire frames hold
  sched     \* one process: module state of schedulerRunner and its tick chains

jobVars == <<jobs, pc, batch>>
govVars == <<rl, rowLock, seen, gpc, wake, winStart, winCount>>
ingVars == <<cursor, registering, upstream, rawFills, walletDay, globalDay, jobDays, run, lastTick>>
vars == <<now, jobs, pc, batch, rl, rowLock, seen, gpc, wake, winStart, winCount,
          cursor, registering, upstream, rawFills, walletDay, globalDay, jobDays, run,
          lastTick, limiter, conn, sched>>
procVars == <<limiter, conn, sched>>

JobIds == 1..Len(jobs)

RECURSIVE Pow2(_)
Pow2(n) == IF n <= 0 THEN 1 ELSE 2 * Pow2(n - 1)

\* ----------------------------------------------------------------------
\* jobs.repo.ts
\* ----------------------------------------------------------------------

\* INSERT INTO public.jobs (org_id, type, payload, run_at): the other columns
\* take the table defaults.
NewJob(org, type, wallet, runAt) ==
  [ org_id |-> org, type |-> type, wallet_id |-> wallet,
    run_at |-> IF runAt = NULL THEN now ELSE runAt,
    status |-> "queued", attempts |-> 0, max_attempts |-> DEFAULT_MAX_ATTEMPTS,
    locked_by |-> NoWorker, locked_at |-> NULL, lock_expires_at |-> NULL,
    last_error |-> NoError ]

\* WHERE clause of the sub-select of claimJobs.
Eligible(j, org) ==
  /\ j.org_id = org
  /\ j.status = "queued"
  /\ j.run_at <= now
  /\ (j.lock_expires_at = NULL \/ j.lock_expires_at < now)

EligibleIds(org) == { i \in JobIds : Eligible(jobs[i], org) }

\* A sub-select without ORDER BY: any eligible rows up to the limit.
ClaimChoicesUnordered(org, limit) ==
  LET el == EligibleIds(org)
      n  == IF Cardinality(el) < limit THEN Cardinality(el) ELSE limit
  IN { S \in SUBSET el : Cardinality(S) = n }

\* ORDER BY run_at ASC ... LIMIT $3: the sets of ids the sub-select may
\* produce (ties on run_at are broken arbitrarily).
ClaimChoices(org, limit) ==
  LET el == EligibleIds(org)
      n  == IF Cardinality(el) < limit THEN Cardinality(el) ELSE limit
  IN { S \in SUBSET el :
         /\ Cardinality(S) = n
         /\ \A i \in S : \A k \in el \ S : jobs[i].run_at <= jobs[k].run_at }

\* SET clause of claimJobs.
ClaimedRow(j, workerId) ==
  [ j EXCEPT !.status = "running",
             !.locked_at = now,
             !.locked_by = workerId,
             !.lock_expires_at = now + LOCK_DURATION_SECONDS * 1000,
             !.attempts = j.attempts + 1 ]

\* SET clause of completeJob.
CompletedRow(j) ==
  [ j EXCEPT !.status = "completed",
             !.locked_at = NULL,
             !.locked_by = NoWorker,
             !.lock_expires_at = NULL ]

\* Variant of FailedRow whose backoff exponent is off by one.
FailedRowShortBackoff(j, error) ==
  [ j EXCEPT !.status = IF j.attempts >= j.max_attempts THEN "failed" ELSE "queued",
             !.last_error = error,
             !.locked_at = NULL,
             !.locked_by = NoWorker,
             !.lock_expires_at = NULL,
             !.run_at = IF j.attempts >= j.max_attempts THEN j.run_at
                        ELSE now + Pow2(j.attempts - 1) * 1000 ]

\* SET clause of failJob.
FailedRow(j, error) ==
  [ j EXCEPT !.status = IF j.attempts >= j.max_attempts THEN "failed" ELSE "queued",
             !.last_error = error,
             !.locked_at = NULL,
             !.locked_by = NoWorker,
             !.lock_expires_at = NULL,
             !.run_at = IF j.attempts >= j.max_attempts THEN j.run_at
                        ELSE now + Pow2(j.attempts) * 1000 ]

\* A cancellation that takes the wallet's running ingest jobs as well.
CancelQueuedOrRunning(j, org, walletId) ==
  /\ j.org_id = org
  /\ j.type = "ingest_wallet"
  /\ j.status \in {"queued", "running"}
  /\ j.wallet_id = walletId

\* WHERE clause of cancelWalletJobs.
CancelMatches(j, org, walletId) ==
  /\ j.org_id = org
  /\ j.type = "ingest_wallet"
  /\ j.status = "queued"
  /\ j.wallet_id = walletId

\* A recovery that takes every running job of the org, whatever its lease.
StuckAnyLease(j, org) ==
  /\ j.org_id = org
  /\ j.status = "running"

\* recoverStuckJobs(orgId): running jobs of the org with an expired lease go
\* back to queued, lock fields cleared, run_at = NOW().
StuckMatches(j, org) ==
  /\ j.org_id = org
  /\ j.status = "running"
  /\ j.lock_expires_at # NULL
  /\ j.lock_expires_at < now

RecoveredRow(j) ==
  [ j EXCEPT !.status = "queued",
             !.locked_at = NULL,
             !.locked_by = NoWorker,
             !.lock_expires_at = NULL,
             !.run_at = now ]

RecoverStuck(org) ==
  [ i \in JobIds |-> IF StuckMatches(jobs[i], org) THEN RecoveredRow(jobs[i]) ELSE jobs[i] ]

\* ----------------------------------------------------------------------
\* Actions of the job store and the worker loop
\* ----------------------------------------------------------------------

\* createJob / enqueueJob
Enqueue ==
  /\ Len(jobs) < MaxJobs
  /\ \E k \in JobKinds, runAt \in RunAtChoices :
       jobs' = Append(jobs, NewJob(k[1], k[2], k[3], runAt))
  /\ UNCHANGED <<now, pc, batch, govVars, ingVars, procVars>>

\* worker.ts: const jobs = await claimJobsInline(ORG_ID, WORKER_ID, limit).
\* An empty result sleeps 250 ms and claims again (the worker stays in
\* "claim"); otherwise the worker walks the returned rows.
ClaimStep(w, bound) ==
  /\ pc[w] = "claim"
  /\ \E limit \in ClaimLimits : \E S \in ClaimChoices(ORG_ID[w], limit) :
       /\ S # {}
       /\ \A i \in S : jobs[i].attempts < bound
       /\ jobs' = [ i \in JobIds |-> IF i \in S THEN ClaimedRow(jobs[i], w) ELSE jobs[i] ]
       /\ batch' = [batch EXCEPT ![w] =
                      { [id |-> i, lease |-> now + LOCK_DURATION_SECONDS * 1000] : i \in S }]
       /\ pc' = [pc EXCEPT ![w] = "run"]
  /\ UNCHANGED <<now, govVars, ingVars, procVars>>

WorkerClaim(w) == ClaimStep(w, AttemptsBound)

\* worker.ts: if (jobs.length === 0) { sleep 250 ms; continue }
WorkerClaimEmpty(w) ==
  /\ pc[w] = "claim"
  /\ EligibleIds(ORG_ID[w]) = {}
  /\ pc' = [pc EXCEPT ![w] = "idle"]
  /\ UNCHANGED <<now, jobs, batch, govVars, ingVars, procVars>>

WorkerWake(w) ==
  /\ pc[w] = "idle"
  /\ pc' = [pc EXCEPT ![w] = "claim"]
  /\ UNCHANGED <<now, jobs, batch, govVars, ingVars, procVars>>

\* worker.ts: await fn(job); await completeJobInline(job.id)
WorkerComplete(w) ==
  /\ pc[w] = "run"
  /\ \E b \in batch[w] :
       /\ jobs' = [jobs EXCEPT ![b.id] = CompletedRow(jobs[b.id])]
       /\ batch' = [batch EXCEPT ![w] = batch[w] \ {b}]
       /\ pc' = [pc EXCEPT ![w] = IF batch[w] = {b} THEN "claim" ELSE "run"]
  /\ UNCHANGED <<now, govVars, ingVars, procVars>>

\* worker.ts: catch (e) { await failJobInline(job.id, errorMessage) }
WorkerFail(w) ==
  /\ pc[w] = "run"
  /\ \E b \in batch[w] :
       /\ jobs' = [jobs EXCEPT ![b.id] = FailedRow(jobs[b.id], "error")]
       /\ batch' = [batch EXCEPT ![w] = batch[w] \ {b}]
       /\ pc' = [pc EXCEPT ![w] = IF batch[w] = {b} THEN "claim" ELSE "run"]
  /\ UNCHANGED <<now, govVars, ingVars, procVars>>

\* The worker process dies (crash, SIGKILL, SIGTERM handler calling
\* process.exit): its in-memory batch is lost, the rows stay as they are.
Crash(w) ==
  /\ w \in Crashable
  /\ pc[w] \in {"claim", "idle", "run"}
  /\ pc' = [pc EXCEPT ![w] = "crashed"]
  /\ batch' = [batch EXCEPT ![w] = {}]
  /\ UNCHANGED <<now, jobs, govVars, ingVars, procVars>>

\* Worker start-up: recoverStuckJobs(ORG_ID), then the claim loop.
Restart(w) ==
  /\ pc[w] = "crashed"
  /\ jobs' = RecoverStuck(ORG_ID[w])
  /\ pc' = [pc EXCEPT ![w] = "claim"]
  /\ UNCHANGED <<now, batch, govVars, ingVars, procVars>>

\* scripts/recover-stuck-jobs.ts
RecoverScript ==
  /\ \E org \in Orgs :
       /\ \E i \in JobIds : StuckMatches(jobs[i], org)
       /\ jobs' = RecoverStuck(org)
  /\ UNCHANGED <<now, pc, batch, govVars, ingVars, procVars>>

\* cancelWalletJobs(orgId, walletId), called on wallet unregistration.
CancelWalletJobs ==
  /\ \E org \in Orgs, walletId \in Wallets :
       /\ \E i \in JobIds : CancelMatches(jobs[i], org, walletId)
       /\ jobs' = [ i \in JobIds |->
                     IF CancelMatches(jobs[i], org, walletId)
                     THEN [jobs[i] EXCEPT !.status = "canceled"]
                     ELSE jobs[i] ]
  /\ UNCHANGED <<now, pc, batch, govVars, ingVars, procVars>>

\* Passage of time: the clock jumps to the next instant at which some row
\* becomes due or some lease has expired.
JobEventTimes ==
  { jobs[i].run_at : i \in JobIds } \cup
  { jobs[i].lock_expires_at + 1 : i \in { k \in JobIds : jobs[k].lock_expires_at # NULL } }

Tick ==
  /\ \E t \in JobEventTimes :
       /\ t > now
       /\ t <= MaxTime
       /\ now' = t
  /\ UNCHANGED <<jobs, pc, batch, govVars, ingVars, procVars>>

\* ----------------------------------------------------------------------
\* rateLimiter.ts: database-backed distributed rate limiter
\* ----------------------------------------------------------------------

\* DEFAULT_CONFIG, tokens in units of 1/TokenUnit token.
MAX_TOKENS == 100 * TokenUnit
TOKEN_COST == 20 * TokenUnit
\* Variant of REFILL_PER_MS: 67 tokens per second.
REFILL_PER_MS_FAST == (67 * TokenUnit) \div 1000

\* refillRate 0.67 tokens/s = 67 units per millisecond.
REFILL_PER_MS == (67 * TokenUnit) \div 100000

Min(a, b) == IF a < b THEN a ELSE b

CeilDiv(a, b) == (a + b - 1) \div b

\* Variant of Refilled that refills 0.67 requests, not tokens, per second.
RefilledPerRequest(tokens, elapsedMs) ==
  Min(MAX_TOKENS, tokens + elapsedMs * REFILL_PER_MS * 20)

\* tokens = Math.min(config.maxTokens, tokens + elapsedSeconds * config.refillRate)
Refilled(tokens, elapsedMs) == Min(MAX_TOKENS, tokens + elapsedMs * REFILL_PER_MS)

\* waitTime = Math.ceil((tokensNeeded / config.refillRate) * 1000)
WaitMs(tokens, cost) == CeilDiv(cost - tokens, REFILL_PER_MS)

\* actualCost - defaultCost of distributedAdjustForResponse, in units.
CostDifference(itemsReturned) ==
  (20 + itemsReturned \div 20) * TokenUnit - TOKEN_COST

\* ensureRateLimitTable: INSERT ... VALUES (key, maxTokens, NOW(), NOW()).
\* The columns requests_this_minute, weight_this_minute and minute_start are
\* statistics that only getStats reads; no operation branches on them and
\* they are not part of the row modelled here.
InitialRow ==
  [ tokens |-> MAX_TOKENS, last_refill |-> 0,
    is_rate_limited |-> FALSE, rate_limited_until |-> NULL ]

\* Variant of RowLockFree for a SELECT without FOR UPDATE.
RowLockIgnored(c) == TRUE

\* The row lock taken by SELECT ... FOR UPDATE is free for caller c.
RowLockFree(c) == rowLock = NoWorker

\* Local variables of distributedAcquire are gone once the call has committed.
\* (seen[c] is reset to InitialRow then.)

\* "Check if rate limited" of distributedAcquire, on the row r it read.
RateLimitedNow(r) ==
  r.is_rate_limited /\ r.rate_limited_until # NULL /\ now < r.rate_limited_until

\* The observed window is open and covers the present instant.
InWindow == winStart # NULL /\ now <= winStart + WINDOW_MS

\* An observer starts the one 60-second window it watches.
StartWindow ==
  /\ winStart = NULL
  /\ winStart' = now
  /\ UNCHANGED <<now, jobVars, rl, rowLock, seen, gpc, wake, winCount, ingVars, procVars>>

\* limiter.acquire() is called (ingestWallet, step 3).
AcquireCall(c) ==
  /\ gpc[c] = "idle"
  /\ gpc' = [gpc EXCEPT ![c] = "start"]
  /\ UNCHANGED <<now, jobVars, rl, rowLock, seen, wake, winStart, winCount, ingVars, procVars>>

\* BEGIN; SELECT ... FOR UPDATE
AcquireLock(c) ==
  /\ gpc[c] = "start"
  /\ RowLockFree(c)
  /\ rowLock' = c
  /\ seen' = [seen EXCEPT ![c] = rl]
  /\ gpc' = [gpc EXCEPT ![c] = "locked"]
  /\ UNCHANGED <<now, jobVars, rl, wake, winStart, winCount, ingVars, procVars>>

\* if (isRateLimited && rateLimitedUntil && now < rateLimitedUntil):
\* COMMIT, sleep until rateLimitedUntil, return waitTime.
AcquireLimited(c) ==
  /\ gpc[c] = "locked"
  /\ RateLimitedNow(seen[c])
  /\ rowLock' = NoWorker
  /\ wake' = [wake EXCEPT ![c] = seen[c].rate_limited_until]
  /\ gpc' = [gpc EXCEPT ![c] = "sleepLimited"]
  /\ seen' = [seen EXCEPT ![c] = InitialRow]
  /\ UNCHANGED <<now, jobVars, rl, winStart, winCount, ingVars, procVars>>

\* Variant of AcquireWait that sleeps inside the transaction (no COMMIT
\* before the setTimeout).
AcquireWaitInTransaction(c) ==
  /\ gpc[c] = "locked"
  /\ ~RateLimitedNow(seen[c])
  /\ LET tokens == Refilled(seen[c].tokens, now - seen[c].last_refill)
     IN /\ tokens < TOKEN_COST
        /\ wake' = [wake EXCEPT ![c] = now + WaitMs(tokens, TOKEN_COST)]
  /\ rowLock' = rowLock
  /\ gpc' = [gpc EXCEPT ![c] = "sleepTokens"]
  /\ seen' = [seen EXCEPT ![c] = InitialRow]
  /\ UNCHANGED <<now, jobVars, rl, winStart, winCount, ingVars, procVars>>

\* if (tokens < cost): COMMIT, sleep waitTime, then call distributedAcquire again.
AcquireWait(c) ==
  /\ gpc[c] = "locked"
  /\ ~RateLimitedNow(seen[c])
  /\ LET tokens == Refilled(seen[c].tokens, now - seen[c].last_refill)
     IN /\ tokens < TOKEN_COST
        /\ wake' = [wake EXCEPT ![c] = now + WaitMs(tokens, TOKEN_COST)]
  /\ rowLock' = NoWorker
  /\ gpc' = [gpc EXCEPT ![c] = "sleepTokens"]
  /\ seen' = [seen EXCEPT ![c] = InitialRow]
  /\ UNCHANGED <<now, jobVars, rl, winStart, winCount, ingVars, procVars>>

\* Deduct tokens and update state: UPDATE ...; COMMIT; return 0.
AcquireDebit(c) ==
  /\ gpc[c] = "locked"
  /\ ~RateLimitedNow(seen[c])
  /\ LET r      == seen[c]
         tokens == Refilled(r.tokens, now - r.last_refill)
     IN /\ tokens >= TOKEN_COST
        /\ rl' = [ tokens |-> tokens - TOKEN_COST,
                   last_refill |-> now,
                   is_rate_limited |->
                     IF r.is_rate_limited /\ r.rate_limited_until # NULL
                        /\ now >= r.rate_limited_until
                     THEN FALSE ELSE r.is_rate_limited,
                   rate_limited_until |-> NULL ]
  /\ rowLock' = NoWorker
  /\ gpc' = [gpc EXCEPT ![c] = "acquired"]
  /\ winCount' = IF InWindow THEN winCount + 1 ELSE winCount
  /\ UNCHANGED winStart
  /\ seen' = [seen EXCEPT ![c] = InitialRow]
  /\ UNCHANGED <<now, jobVars, wake, ingVars, procVars>>

\* The setTimeout of the token wait fires: return waitTime + await distributedAcquire(...)
WakeRetry(c) ==
  /\ gpc[c] = "sleepTokens"
  /\ now >= wake[c]
  /\ gpc' = [gpc EXCEPT ![c] = "start"]
  /\ wake' = [wake EXCEPT ![c] = NULL]
  /\ UNCHANGED <<now, jobVars, rl, rowLock, seen, winStart, winCount, ingVars, procVars>>

\* The setTimeout of the rate-limit wait fires: return waitTime.
WakeReturn(c) ==
  /\ gpc[c] = "sleepLimited"
  /\ now >= wake[c]
  /\ gpc' = [gpc EXCEPT ![c] = "acquired"]
  /\ wake' = [wake EXCEPT ![c] = NULL]
  /\ UNCHANGED <<now, jobVars, rl, rowLock, seen, winStart, winCount, ingVars, procVars>>

\* distributedMarkRateLimited
MarkedRow(r) ==
  [ r EXCEPT !.is_rate_limited = TRUE,
             !.rate_limited_until = now + RATE_LIMIT_BACKOFF_MS,
             !.tokens = 0 ]

\* distributedAdjustForResponse
AdjustedRow(r, itemsReturned) ==
  IF CostDifference(itemsReturned) > 0
  THEN [ r EXCEPT !.tokens = r.tokens - CostDifference(itemsReturned) ]
  ELSE r

\* The upstream call fails with a rate-limit error: reportRateLimit(), throw.
UpstreamRateLimited(c) ==
  /\ gpc[c] = "acquired"
  /\ rowLock = NoWorker
  /\ rl' = MarkedRow(rl)
  /\ gpc' = [gpc EXCEPT ![c] = "idle"]
  /\ UNCHANGED <<now, jobVars, rowLock, seen, wake, winStart, winCount, ingVars, procVars>>

\* The upstream call returns fills: adjustForResponseSize(fills.length).
UpstreamOk(c) ==
  /\ gpc[c] = "acquired"
  /\ rowLock = NoWorker
  /\ \E items \in ItemsChoices : rl' = AdjustedRow(rl, items)
  /\ gpc' = [gpc EXCEPT ![c] = "idle"]
  /\ UNCHANGED <<now, jobVars, rowLock, seen, wake, winStart, winCount, ingVars, procVars>>

\* Passage of time for the governor, in steps of GovStep: a setTimeout fires
\* at the first such instant at or after its due time.
GovTick ==
  /\ now + GovStep <= MaxGovTime
  /\ now' = now + GovStep
  /\ UNCHANGED <<jobVars, govVars, ingVars, procVars>>

\* ----------------------------------------------------------------------
\* Wallet registration, scheduler, ingestion and rollups
\* ----------------------------------------------------------------------

\* Wallets the org registers (address = id).
SchedWallets == {1, 2}

\* ingestWallet.job.ts: const OVERLAP_MS = 10 * 60 * 1000
OVERLAP_MS == 10 * 60 * 1000
DAY_MS == 24 * 60 * 60 * 1000
HOUR_MS == 60 * 60 * 1000
\* '1970-01-01'::timestamptz / new Date(0) on the model's clock: an instant
\* before every fill, overlap included.
EPOCH_TS == -2000000000
\* The last midnight (UTC) before the model's instant 0, which is 00:30.
MIDNIGHT == 0 - 30 * 60 * 1000

\* walletScheduler.ts DEFAULT_CONFIG
HOT_WALLET_INTERVAL == 60
WARM_WALLET_INTERVAL == 900
COLD_WALLET_INTERVAL == 3600
HOT_THRESHOLD_HOURS == 24
WARM_THRESHOLD_HOURS == 168
MAX_JOBS_PER_RUN == 50

\* Fills the exchange holds for wallet 1 at the start: one of yesterday
\* (23:30) and one of today (00:29), 59 minutes apart.
InitialFills ==
  { [id |-> "a", ts |-> 0 - 60 * 60 * 1000, spot |-> TRUE, px |-> 2, sz |-> 1],
    [id |-> "b", ts |-> 0 - 60 * 1000, spot |-> FALSE, px |-> 3, sz |-> 1] }

\* A trade the wallet makes while the system runs.
NewFill == [id |-> "c", ts |-> now, spot |-> FALSE, px |-> 1, sz |-> 1]
\* The instants at which the wallet may trade.
TradeTimes == {0}

\* The row of a wallet without a cursor; status and last_success_at of a new
\* row are the column defaults (initializeCursor does not name them).
NoCursor ==
  [ exists |-> FALSE, cursor_ts |-> EPOCH_TS, last_success_at |-> NULL,
    status |-> "default", error_count |-> 0, next_run_at |-> 0 ]
\* No upstream error caught.
NoUpstreamError == [status |-> 0, message |-> << >>]
NoRun ==
  [ step |-> "none", job |-> 0, cursorTs |-> EPOCH_TS, fills |-> {},
    error |-> NoUpstreamError ]

Max(a, b) == IF a > b THEN a ELSE b

\* DATE(ts)
DayOf(ts) == (ts - MIDNIGHT) \div DAY_MS

MaxTs(S) == CHOOSE t \in { f.ts : f \in S } : \A f \in S : f.ts <= t

\* payload.days of job i
DaysOf(i) == IF i \in 1..Len(jobDays) THEN jobDays[i] ELSE {}

\* getWalletIdsWithPendingJobs: wallets of the org with a queued or running
\* ingest_wallet job.
PendingIngest(i, org) ==
  /\ jobs[i].org_id = org
  /\ jobs[i].type = "ingest_wallet"
  /\ jobs[i].status \in {"queued", "running"}

WalletIdsWithPendingJobs(org) ==
  { jobs[i].wallet_id : i \in { k \in JobIds : PendingIngest(k, org) } }

\* getLastTradeTs: MAX(last_trade_ts) over wallet_day_metrics, as a set that
\* is empty when there is no row.
LastTradeTs(wl) ==
  LET rows == { m \in walletDay : m.wallet_id = wl }
  IN IF rows = {} THEN {}
     ELSE { CHOOSE t \in { m.last_trade_ts : m \in rows } :
              \A m \in rows : m.last_trade_ts <= t }

\* determinePriority / the CASE of getWalletsDueForIngestion
Priority(wl) ==
  LET last == LastTradeTs(wl)
  IN IF last = {} THEN "cold"
     ELSE IF \E t \in last : now - t < HOT_THRESHOLD_HOURS * HOUR_MS THEN "hot"
     ELSE IF \E t \in last : now - t < WARM_THRESHOLD_HOURS * HOUR_MS THEN "warm"
     ELSE "cold"

PriorityRank(wl) ==
  IF Priority(wl) = "hot" THEN 1 ELSE IF Priority(wl) = "warm" THEN 2 ELSE 3

\* calculateNextRunAt
NextRunAt(priority, errorCount) ==
  LET base == IF priority = "hot" THEN HOT_WALLET_INTERVAL
              ELSE IF priority = "warm" THEN WARM_WALLET_INTERVAL
              ELSE COLD_WALLET_INTERVAL
      secs == IF errorCount > 0
              THEN Min(base * Pow2(Min(errorCount, 6)), 3600)
              ELSE base
  IN now + secs * 1000

\* updateCursorSuccess; no row, no effect.
CursorSuccess(c, wl, cursorTs) ==
  IF c[wl].exists
  THEN [c EXCEPT ![wl] = [ exists |-> TRUE, cursor_ts |-> cursorTs,
                           last_success_at |-> now, status |-> "ok",
                           error_count |-> 0,
                           next_run_at |-> NextRunAt(Priority(wl), 0) ]]
  ELSE c

\* Variant of CursorFailure that writes the error count it read.
CursorFailureNoIncrement(c, wl) ==
  IF c[wl].exists
  THEN [c EXCEPT ![wl].error_count = c[wl].error_count,
                 ![wl].status = "error",
                 ![wl].next_run_at = NextRunAt("cold", c[wl].error_count)]
  ELSE c

\* updateCursorAfterIngestion(org, wallet, false): getCursor, then
\* updateCursorFailure.
CursorFailure(c, wl) ==
  IF c[wl].exists
  THEN [c EXCEPT ![wl].error_count = c[wl].error_count + 1,
                 ![wl].status = "error",
                 ![wl].next_run_at = NextRunAt("cold", c[wl].error_count + 1)]
  ELSE c

\* Date.getTime(): milliseconds since 1970-01-01 of an instant of the model's
\* clock.
GetTime(ts) == ts - EPOCH_TS

\* const startTime = new Date(cursorTs.getTime() - OVERLAP_MS)
StartTime(cursorTs) == cursorTs - OVERLAP_MS

\* hlClient.userFillsByTime({ user, startTime })
Response(wl, startTime) == { f \in upstream[wl] : f.ts >= startTime }

\* One element of `values` in ingestWallet.
FillRow(wl, f) ==
  [ wallet_id |-> wl, hl_fill_id |-> f.id, ts |-> f.ts,
    is_spot |-> f.spot, is_perp |-> ~f.spot, px |-> f.px, sz |-> f.sz ]

\* ON CONFLICT (org_id, wallet_id, hl_fill_id, ts)
Conflicts(row) ==
  \E r \in BagToSet(rawFills) :
    r.wallet_id = row.wallet_id /\ r.hl_fill_id = row.hl_fill_id /\ r.ts = row.ts

\* Variant of InsertedFills: a plain INSERT, without ON CONFLICT DO NOTHING.
InsertedFillsNoConflict(wl, fills) ==
  rawFills (+) SetToBag({ FillRow(wl, f) : f \in fills })

\* INSERT INTO public.hl_fills_raw ... ON CONFLICT (...) DO NOTHING
InsertedFills(wl, fills) ==
  rawFills (+) SetToBag({ row \in { FillRow(wl, f) : f \in fills } : ~Conflicts(row) })

\* Raw rows of a wallet on a day: ts >= day AND ts < day + 1.
RowsOn(wl, day) ==
  { r \in BagToSet(rawFills) : r.wallet_id = wl /\ DayOf(r.ts) = day }

RECURSIVE SpotVolume(_)
SpotVolume(S) ==
  IF S = {} THEN 0
  ELSE LET r == CHOOSE x \in S : TRUE
       IN (IF r.is_spot THEN r.px * r.sz ELSE 0) * CopiesIn(r, rawFills)
            + SpotVolume(S \ {r})

RECURSIVE PerpVolume(_)
PerpVolume(S) ==
  IF S = {} THEN 0
  ELSE LET r == CHOOSE x \in S : TRUE
       IN (IF r.is_perp THEN r.px * r.sz ELSE 0) * CopiesIn(r, rawFills)
            + PerpVolume(S \ {r})

RECURSIVE TradesCount(_)
TradesCount(S) ==
  IF S = {} THEN 0
  ELSE LET r == CHOOSE x \in S : TRUE
       IN CopiesIn(r, rawFills) + TradesCount(S \ {r})

\* The agg row of rollupWalletDay for one day (there is one when the day has
\* raw fills).
WalletDayAgg(wl, day) ==
  LET S == RowsOn(wl, day)
  IN [ wallet_id |-> wl, day |-> day,
       spot_volume_usd |-> SpotVolume(S), perp_volume_usd |-> PerpVolume(S),
       trades_count |-> TradesCount(S), last_trade_ts |-> MaxTs(S) ]

\* INSERT ... ON CONFLICT (org_id, wallet_id, day) DO UPDATE, for each day of
\* the payload.
RolledUpWalletDays(wl, days) ==
  LET hit == { d \in days : RowsOn(wl, d) # {} }
  IN { m \in walletDay : ~(m.wallet_id = wl /\ m.day \in hit) }
       \cup { WalletDayAgg(wl, d) : d \in hit }

RECURSIVE SumSpot(_)
SumSpot(M) ==
  IF M = {} THEN 0
  ELSE LET m == CHOOSE x \in M : TRUE IN m.spot_volume_usd + SumSpot(M \ {m})

RECURSIVE SumPerp(_)
SumPerp(M) ==
  IF M = {} THEN 0
  ELSE LET m == CHOOSE x \in M : TRUE IN m.perp_volume_usd + SumPerp(M \ {m})

\* numeric quotient total / dau, kept in hundredths.
AvgScale == 10 * 10
PerUser(total, dau) == IF dau > 0 THEN (total * AvgScale) \div dau ELSE 0

\* The agg row of rollupGlobalDay and the columns its INSERT derives from it.
GlobalDayAgg(day) ==
  LET M   == { m \in walletDay : m.day = day }
      dau == Cardinality({ m \in M : m.trades_count > 0 })
  IN [ day |-> day, dau |-> dau,
       spot_volume_usd |-> SumSpot(M), perp_volume_usd |-> SumPerp(M),
       avg_spot_volume_per_user |-> PerUser(SumSpot(M), dau),
       avg_perp_volume_per_user |-> PerUser(SumPerp(M), dau) ]

\* A global rollup that keeps a row it finds: ON CONFLICT DO NOTHING.
RolledUpGlobalDaysNoUpdate(days) ==
  LET hit == { d \in days : (\E m \in walletDay : m.day = d)
                              /\ ~(\E g \in globalDay : g.day = d) }
  IN globalDay \cup { GlobalDayAgg(d) : d \in hit }

\* INSERT ... ON CONFLICT (org_id, day) DO UPDATE, for each day of the
\* payload; a day without wallet-day rows gives no agg row.
RolledUpGlobalDays(days) ==
  LET hit == { d \in days : \E m \in walletDay : m.day = d }
  IN { g \in globalDay : g.day \notin hit } \cup { GlobalDayAgg(d) : d \in hit }

\* distributedAvailableRequests
AvailableRequests ==
  IF rl.is_rate_limited THEN 0
  ELSE Refilled(rl.tokens, now - rl.last_refill) \div TOKEN_COST

\* The row distributedAcquire writes when it debits.
DebitedRow(r) ==
  [ tokens |-> Refilled(r.tokens, now - r.last_refill) - TOKEN_COST,
    last_refill |-> now,
    is_rate_limited |->
      IF r.is_rate_limited /\ r.rate_limited_until # NULL /\ now >= r.rate_limited_until
      THEN FALSE ELSE r.is_rate_limited,
    rate_limited_until |-> NULL ]

\* registerWallet, steps 1-3 in one transaction: upsertWallet, linkWalletToOrg
\* and initializeCursor (ON CONFLICT DO NOTHING); triggerBackfill is an input.
RegisterStep(wl, triggerBackfill, bound) ==
  /\ wl \notin registering
  /\ Cardinality({ i \in JobIds : jobs[i].type = "ingest_wallet" })
       + Cardinality(registering) < bound
  /\ cursor' = [cursor EXCEPT ![wl] =
                  IF cursor[wl].exists THEN cursor[wl]
                  ELSE [ NoCursor EXCEPT !.exists = TRUE, !.next_run_at = now ]]
  /\ registering' = IF triggerBackfill THEN registering \cup {wl} ELSE registering
  /\ triggerBackfill \/ ~cursor[wl].exists
  /\ UNCHANGED <<now, jobVars, govVars, upstream, rawFills, walletDay, globalDay,
                 jobDays, run, lastTick, procVars>>

RegisterCommit(wl, triggerBackfill) == RegisterStep(wl, triggerBackfill, MaxBackfills)

\* registerWallet, step 4, outside the transaction: createJob(ingest_wallet).
RegisterBackfill(wl) ==
  /\ wl \in registering
  /\ Len(jobs) < MaxIngestJobs
  /\ registering' = registering \ {wl}
  /\ jobs' = Append(jobs, NewJob("o1", "ingest_wallet", wl, NULL))
  /\ jobDays' = [ i \in 1..Len(jobs) + 1 |-> DaysOf(i) ]
  /\ UNCHANGED <<now, pc, batch, govVars, cursor, upstream, rawFills, walletDay,
                 globalDay, run, lastTick, procVars>>

\* getWalletsDueForIngestion: rows with next_run_at <= NOW(), by priority and
\* next_run_at (LIMIT maxJobsPerRun is above the number of wallets).
DueWallets == { wl \in SchedWallets : cursor[wl].exists /\ cursor[wl].next_run_at <= now }

\* The wallets the loop of scheduleWalletIngestion creates jobs for: it walks
\* the due wallets in order, skips those with a pending job and stops when
\* `scheduled` reaches availableRequests.
TickChoices(cap) ==
  LET cand == DueWallets \ WalletIdsWithPendingJobs("o1")
      n    == Min(Min(cap, MAX_JOBS_PER_RUN), Cardinality(cand))
      Before(a, b) ==
        \/ PriorityRank(a) < PriorityRank(b)
        \/ PriorityRank(a) = PriorityRank(b) /\ cursor[a].next_run_at <= cursor[b].next_run_at
  IN { S \in SUBSET cand :
         /\ Cardinality(S) = n
         /\ \A a \in S : \A b \in cand \ S : Before(a, b) }

RECURSIVE AppendJobs(_, _)
AppendJobs(q, S) ==
  IF S = {} THEN q
  ELSE LET wl == CHOOSE x \in S : \A y \in S : x <= y
       IN AppendJobs(Append(q, NewJob("o1", "ingest_wallet", wl, NULL)), S \ {wl})

\* schedulerRunner tick: scheduleWalletIngestion(orgId)
SchedulerTick ==
  LET cap == AvailableRequests
  IN /\ IF cap = 0
        THEN /\ UNCHANGED <<jobs, jobDays>>
             /\ lastTick' = [cap |-> 0, scheduled |-> 0, pending |-> 0]
        ELSE \E S \in TickChoices(cap) :
               /\ Len(jobs) + Cardinality(S) <= MaxIngestJobs
               /\ jobs' = AppendJobs(jobs, S)
               /\ jobDays' = [ i \in 1..Len(jobs) + Cardinality(S) |-> DaysOf(i) ]
               /\ lastTick' =
                    [ cap |-> cap, scheduled |-> Cardinality(S),
                      pending |-> Cardinality({ i \in JobIds : PendingIngest(i, "o1") })
                                    + Cardinality(S) ]
     /\ UNCHANGED <<now, pc, batch, govVars, cursor, registering, upstream, rawFills,
                    walletDay, globalDay, run, procVars>>

\* The wallet trades: the exchange holds one more fill.
UpstreamTrade(wl) ==
  /\ now \in TradeTimes
  /\ \A f \in upstream[wl] : f.id # NewFill.id
  /\ upstream' = [upstream EXCEPT ![wl] = upstream[wl] \cup {NewFill}]
  /\ UNCHANGED <<now, jobVars, govVars, cursor, registering, rawFills, walletDay,
                 globalDay, jobDays, run, lastTick, procVars>>

\* The row removed from the worker's batch, and the worker's next position.
Handled(w, id) ==
  /\ batch' = [batch EXCEPT ![w] = { b \in batch[w] : b.id # id }]
  /\ pc' = [pc EXCEPT ![w] = IF { b \in batch[w] : b.id # id } = {} THEN "claim" ELSE "run"]

\* ingestWallet, lines 26-38: the handler of a claimed ingest_wallet job
\* starts and reads the cursor.
IngestBegin(w) ==
  /\ pc[w] = "run"
  /\ run[w].step = "none"
  /\ \E b \in batch[w] :
       /\ jobs[b.id].type = "ingest_wallet"
       /\ run' = [run EXCEPT ![w] =
                    [ step |-> "cursorRead", job |-> b.id,
                      cursorTs |-> IF cursor[jobs[b.id].wallet_id].exists
                                   THEN cursor[jobs[b.id].wallet_id].cursor_ts
                                   ELSE EPOCH_TS,
                      fills |-> {}, error |-> NoUpstreamError ]]
  /\ UNCHANGED <<now, jobVars, govVars, cursor, registering, upstream, rawFills,
                 walletDay, globalDay, jobDays, lastTick, procVars>>

\* ingestWallet, lines 42-64: limiter.acquire() debits (it returns at once
\* when the bucket holds the cost and the row is not rate limited), the
\* exchange answers, adjustForResponseSize(fills.length).
IngestFetch(w) ==
  /\ run[w].step = "cursorRead"
  /\ rowLock = NoWorker
  /\ ~RateLimitedNow(rl)
  /\ Refilled(rl.tokens, now - rl.last_refill) >= TOKEN_COST
  /\ LET wl   == jobs[run[w].job].wallet_id
         resp == Response(wl, StartTime(run[w].cursorTs))
     IN /\ rl' = AdjustedRow(DebitedRow(rl), Cardinality(resp))
        /\ run' = [run EXCEPT ![w].step = "fetched", ![w].fills = resp]
  /\ UNCHANGED <<now, jobVars, rowLock, seen, gpc, wake, winStart, winCount, cursor,
                 registering, upstream, rawFills, walletDay, globalDay, jobDays, lastTick,
                 procVars>>

\* String.prototype.includes on messages held as sequences of characters
\* (case-sensitive, like the code's).
Includes(hay, needle) ==
  \E i \in 1..(Len(hay) - Len(needle) + 1) :
    SubSeq(hay, i, i + Len(needle) - 1) = needle

\* The reason phrases a server may send with a status line; an HTTP/2
\* response has none.
TooManyRequests == <<"T", "o", "o", " ", "M", "a", "n", "y", " ", "R", "e", "q", "u", "e", "s", "t", "s">>
TooManyLower == <<"T", "o", "o", " ", "m", "a", "n", "y", " ", "r", "e", "q", "u", "e", "s", "t", "s">>
ServerError == <<"I", "n", "t", "e", "r", "n", "a", "l", " ", "S", "e", "r", "v", "e", "r", " ", "E", "r", "r", "o", "r">>
StatusTexts == {TooManyRequests, TooManyLower, ServerError, << >>}

\* hlClient.userFillsByTime: if (!response.ok) throw new Error(
\* `Hyperliquid API error: ${response.status} ${response.statusText}`)
StatusDigits(status) == IF status = 429 THEN <<"4", "2", "9">> ELSE <<"5", "0", "0">>
ClientError(status, statusText) ==
  [ status  |-> status,
    message |-> <<"H", "y", "p", "e", "r", "l", "i", "q", "u", "i", "d", " ", "A", "P", "I", " ", "e", "r", "r", "o", "r", ":", " ">>
                  \o StatusDigits(status) \o <<" ">> \o statusText ]
UpstreamErrors == { ClientError(st, tx) : st \in {429, 500}, tx \in StatusTexts }

\* errorMessage.includes('rate limit') || errorMessage.includes('Too many')
IsRateLimitMessage(message) ==
  \/ Includes(message, <<"r", "a", "t", "e", " ", "l", "i", "m", "i", "t">>)
  \/ Includes(message, <<"T", "o", "o", " ", "m", "a", "n", "y">>)

\* ingestWallet, lines 42-61: limiter.acquire() debits, the upstream call
\* throws; the inner catch calls reportRateLimit() for a rate-limit message
\* and rethrows.
IngestUpstreamError(w) ==
  /\ run[w].step = "cursorRead"
  /\ rowLock = NoWorker
  /\ ~RateLimitedNow(rl)
  /\ Refilled(rl.tokens, now - rl.last_refill) >= TOKEN_COST
  /\ \E e \in UpstreamErrors :
       /\ rl' = IF IsRateLimitMessage(e.message)
                THEN MarkedRow(DebitedRow(rl))
                ELSE DebitedRow(rl)
       /\ run' = [run EXCEPT ![w].step = "upstreamError", ![w].error = e]
  /\ UNCHANGED <<now, jobVars, rowLock, seen, gpc, wake, winStart, winCount, cursor,
                 registering, upstream, rawFills, walletDay, globalDay, jobDays, lastTick,
                 procVars>>

\* ingestWallet, lines 66-119: an empty response writes the cursor it read
\* and returns; otherwise the bulk insert.
IngestStore(w) ==
  /\ run[w].step = "fetched"
  /\ LET wl == jobs[run[w].job].wallet_id
     IN IF run[w].fills = {}
        THEN /\ cursor' = CursorSuccess(cursor, wl, run[w].cursorTs)
             /\ run' = [run EXCEPT ![w].step = "done"]
             /\ UNCHANGED rawFills
        ELSE /\ rawFills' = InsertedFills(wl, run[w].fills)
             /\ run' = [run EXCEPT ![w].step = "inserted"]
             /\ UNCHANGED cursor
  /\ UNCHANGED <<now, jobVars, govVars, registering, upstream, walletDay, globalDay,
                 jobDays, lastTick, procVars>>

\* ingestWallet, lines 121-126: updateCursorAfterIngestion(.., true, maxTs)
IngestAdvance(w) ==
  /\ run[w].step = "inserted"
  /\ cursor' = CursorSuccess(cursor, jobs[run[w].job].wallet_id, MaxTs(run[w].fills))
  /\ run' = [run EXCEPT ![w].step = "advanced"]
  /\ UNCHANGED <<now, jobVars, govVars, registering, upstream, rawFills, walletDay,
                 globalDay, jobDays, lastTick, procVars>>

\* Variant of IngestChain that enqueues the rollup as soon as the fills are
\* fetched, before the insert and the cursor update.
IngestChainBeforeInsert(w) ==
  /\ run[w].step = "fetched"
  /\ run[w].fills # {}
  /\ Len(jobs) < MaxIngestJobs
  /\ jobs' = Append(jobs, NewJob(jobs[run[w].job].org_id, "rollup_wallet_day",
                                 jobs[run[w].job].wallet_id, NULL))
  /\ jobDays' = [ i \in 1..Len(jobs) + 1 |->
                    IF i = Len(jobs) + 1 THEN { DayOf(f.ts) : f \in run[w].fills }
                    ELSE DaysOf(i) ]
  /\ run' = [run EXCEPT ![w].step = "done"]
  /\ UNCHANGED <<now, pc, batch, govVars, cursor, registering, upstream, rawFills,
                 walletDay, globalDay, lastTick, procVars>>

\* ingestWallet, lines 128-135: enqueueJob(rollup_wallet_day, affected days)
IngestChain(w) ==
  /\ run[w].step = "advanced"
  /\ Len(jobs) < MaxIngestJobs
  /\ jobs' = Append(jobs, NewJob(jobs[run[w].job].org_id, "rollup_wallet_day",
                                 jobs[run[w].job].wallet_id, NULL))
  /\ jobDays' = [ i \in 1..Len(jobs) + 1 |->
                    IF i = Len(jobs) + 1 THEN { DayOf(f.ts) : f \in run[w].fills }
                    ELSE DaysOf(i) ]
  /\ run' = [run EXCEPT ![w].step = "done"]
  /\ UNCHANGED <<now, pc, batch, govVars, cursor, registering, upstream, rawFills,
                 walletDay, globalDay, lastTick, procVars>>

\* The handler returns; worker.ts: await completeJobInline(job.id)
IngestReturn(w) ==
  /\ run[w].step = "done"
  /\ jobs' = [jobs EXCEPT ![run[w].job] = CompletedRow(jobs[run[w].job])]
  /\ Handled(w, run[w].job)
  /\ run' = [run EXCEPT ![w] = NoRun]
  /\ UNCHANGED <<now, govVars, cursor, registering, upstream, rawFills, walletDay,
                 globalDay, jobDays, lastTick, procVars>>

\* A statement of the handler throws (the acquire, the upstream call, the
\* insert, the cursor update or the enqueue): ingestWallet's catch calls
\* updateCursorAfterIngestion(.., false) and rethrows, worker.ts calls
\* failJobInline(job.id, message).
IngestThrow(w) ==
  /\ run[w].step \in {"cursorRead", "upstreamError", "fetched", "inserted", "advanced"}
  /\ cursor' = CursorFailure(cursor, jobs[run[w].job].wallet_id)
  /\ jobs' = [jobs EXCEPT ![run[w].job] = FailedRow(jobs[run[w].job], "error")]
  /\ Handled(w, run[w].job)
  /\ run' = [run EXCEPT ![w] = NoRun]
  /\ UNCHANGED <<now, govVars, registering, upstream, rawFills, walletDay, globalDay,
                 jobDays, lastTick, procVars>>

\* The worker process dies: its batch and the handler's locals are lost.
IngestCrash(w) ==
  /\ w \in Crashable
  /\ pc[w] \in {"claim", "idle", "run"}
  /\ pc' = [pc EXCEPT ![w] = "crashed"]
  /\ batch' = [batch EXCEPT ![w] = {}]
  /\ run' = [run EXCEPT ![w] = NoRun]
  /\ UNCHANGED <<now, jobs, govVars, cursor, registering, upstream, rawFills, walletDay,
                 globalDay, jobDays, lastTick, procVars>>

\* rollupWalletDay: recompute each day of the payload, chain the global
\* rollup, return; worker.ts completes the job.
RollupWalletDay(w) ==
  /\ pc[w] = "run"
  /\ run[w].step = "none"
  /\ Len(jobs) < MaxIngestJobs
  /\ \E b \in batch[w] :
       /\ jobs[b.id].type = "rollup_wallet_day"
       /\ walletDay' = RolledUpWalletDays(jobs[b.id].wallet_id, DaysOf(b.id))
       /\ jobs' = Append([jobs EXCEPT ![b.id] = CompletedRow(jobs[b.id])],
                         NewJob(jobs[b.id].org_id, "rollup_global_day", 0, NULL))
       /\ jobDays' = [ i \in 1..Len(jobs) + 1 |->
                         IF i = Len(jobs) + 1 THEN DaysOf(b.id) ELSE DaysOf(i) ]
       /\ Handled(w, b.id)
  /\ UNCHANGED <<now, govVars, cursor, registering, upstream, rawFills, globalDay, run,
                 lastTick, procVars>>

\* rollupGlobalDay: recompute each day of the payload; worker.ts completes
\* the job.
RollupGlobalDay(w) ==
  /\ pc[w] = "run"
  /\ run[w].step = "none"
  /\ \E b \in batch[w] :
       /\ jobs[b.id].type = "rollup_global_day"
       /\ globalDay' = RolledUpGlobalDays(DaysOf(b.id))
       /\ jobs' = [jobs EXCEPT ![b.id] = CompletedRow(jobs[b.id])]
       /\ Handled(w, b.id)
  /\ UNCHANGED <<now, govVars, cursor, registering, upstream, rawFills, walletDay,
                 jobDays, run, lastTick, procVars>>

\* Passage of time while the wallet is ingested.
IngestTick ==
  /\ Tick
  /\ now' <= MaxIngestTime

\* The same steps where the wallet is registered once and a lease can expire.
CrashRegister(wl, triggerBackfill) == RegisterStep(wl, triggerBackfill, MaxCrashBackfills)

CrashTick ==
  /\ Tick
  /\ now' <= MaxCrashTime

IngInit ==
  /\ cursor = [wl \in SchedWallets |-> NoCursor]
  /\ registering = {}
  /\ upstream = [wl \in SchedWallets |-> IF wl = 1 THEN InitialFills ELSE {}]
  /\ rawFills = EmptyBag
  /\ walletDay = {}
  /\ globalDay = {}
  /\ jobDays = << >>
  /\ run = [w \in Workers |-> NoRun]
  /\ lastTick = [cap |-> 0, scheduled |-> 0, pending |-> 0]

GovInit ==
  /\ rl = InitialRow
  /\ rowLock = NoWorker
  /\ seen = [w \in Workers |-> InitialRow]
  /\ gpc = [w \in Workers |-> "idle"]
  /\ wake = [w \in Workers |-> NULL]
  /\ winStart = NULL
  /\ winCount = 0

JobInit ==
  /\ jobs = << >>
  /\ pc = [w \in Workers |-> "claim"]
  /\ batch = [w \in Workers |-> {}]

\* ----------------------------------------------------------------------
\* One process: the rate limiter module and schedulerRunner
\* ----------------------------------------------------------------------

\* Slots for tick chains (the runTick closures alive at one time) and the
\* startScheduler calls that may be suspended at once.
MaxChains == 3
MaxStarts == 2
\* Connections of the pool the callers of the governor share (pool.ts: max 10).
PoolSize == 2
Chains == 1..MaxChains

\* let localLimiter = null; let config = { ...DEFAULT_CONFIG }; let initialized = false
\* (autoInit records the warning of ensureInitialized, bucket the limiter the
\* last acquire went to.)
LimiterInit ==
  [ initialized |-> FALSE, useDistributed |-> TRUE, localTokens |-> NULL,
    autoInit |-> FALSE, bucket |-> "none" ]

\* initRateLimiter(userConfig) with userConfig.useDistributed = d
InitRateLimiter(l, d) ==
  [ l EXCEPT !.initialized = TRUE,
             !.useDistributed = d,
             !.localTokens = IF d THEN l.localTokens ELSE MAX_TOKENS ]

\* ensureInitialized
EnsureInitialized(l) ==
  IF l.initialized THEN l
  ELSE [ l EXCEPT !.initialized = TRUE, !.useDistributed = FALSE,
                  !.localTokens = MAX_TOKENS, !.autoInit = TRUE ]

\* getRateLimiter(userConfig): u is userConfig.useDistributed, "unset"
\* without it.
UserConfigs == {"unset", "distributed", "local"}
GetRateLimiter(l, u) ==
  EnsureInitialized(IF u = "unset" THEN l
                    ELSE [l EXCEPT !.useDistributed = (u = "distributed")])

\* The bucket an acquire() on the returned limiter debits: the shared row, the
\* process-local bucket, or none when localLimiter is null.
Acquired(l) ==
  IF l.useDistributed THEN [l EXCEPT !.bucket = "distributed"]
  ELSE IF l.localTokens = NULL THEN [l EXCEPT !.bucket = "null"]
  ELSE [ l EXCEPT !.bucket = "local",
                  !.localTokens = IF l.localTokens >= TOKEN_COST
                                  THEN l.localTokens - TOKEN_COST
                                  ELSE l.localTokens ]

SchedInit ==
  [ isRunning |-> FALSE, tickTimer |-> NULL, starting |-> 0,
    chains |-> [k \in Chains |-> "none"] ]

\* A caller (worker start-up in part_006, a script) calls initRateLimiter.
InitRateLimiterCall(d) ==
  /\ limiter' = InitRateLimiter(limiter, d)
  /\ limiter' # limiter
  /\ UNCHANGED <<now, jobVars, govVars, ingVars, conn, sched>>

\* ingestWallet / scheduleWalletIngestion: getRateLimiter(), then acquire();
\* another caller may pass a config.
LimiterAcquire(u) ==
  /\ limiter' = Acquired(GetRateLimiter(limiter, u))
  /\ limiter' # limiter
  /\ UNCHANGED <<now, jobVars, govVars, ingVars, conn, sched>>

\* startScheduler up to its await: the isRunning test, then initRateLimiter.
StartSchedulerCall(d) ==
  /\ ~sched.isRunning
  /\ sched.starting < MaxStarts
  /\ limiter' = InitRateLimiter(limiter, d)
  /\ sched' = [sched EXCEPT !.starting = sched.starting + 1]
  /\ UNCHANGED <<now, jobVars, govVars, ingVars, conn>>

\* startScheduler after the await: isRunning = true; runTick() passes its
\* isRunning test and starts its first tick.
StartSchedulerResume ==
  /\ sched.starting > 0
  /\ \E k \in Chains :
       /\ sched.chains[k] \in {"none", "dead"}
       /\ sched' = [sched EXCEPT !.starting = sched.starting - 1,
                                 !.isRunning = TRUE,
                                 !.chains[k] = "ticking"]
  /\ UNCHANGED <<now, jobVars, govVars, ingVars, limiter, conn>>

\* runTick after await tick(orgId): tickTimer = setTimeout(runTick, interval)
ChainTickDone(k) ==
  /\ sched.chains[k] = "ticking"
  /\ sched' = [sched EXCEPT !.chains[k] = "timer", !.tickTimer = k]
  /\ UNCHANGED <<now, jobVars, govVars, ingVars, limiter, conn>>

\* The timer of chain k fires: runTick returns if (!isRunning), else ticks.
ChainTimerFire(k) ==
  /\ sched.chains[k] = "timer"
  /\ sched' = [sched EXCEPT !.chains[k] = IF sched.isRunning THEN "ticking" ELSE "dead"]
  /\ UNCHANGED <<now, jobVars, govVars, ingVars, limiter, conn>>

\* stopScheduler: isRunning = false; clearTimeout(tickTimer) cancels the
\* timer whose handle it holds, if that timer is still pending.
StopScheduler ==
  /\ sched.isRunning
  /\ sched' = [sched EXCEPT
                 !.isRunning = FALSE,
                 !.tickTimer = NULL,
                 !.chains = [k \in Chains |->
                               IF k = sched.tickTimer /\ sched.chains[k] = "timer"
                               THEN "dead" ELSE sched.chains[k]]]
  /\ UNCHANGED <<now, jobVars, govVars, ingVars, limiter, conn>>

ProcInit ==
  /\ limiter = LimiterInit
  /\ conn = [c \in Workers |-> 0]
  /\ sched = SchedInit

NextProcess ==
  \/ \E d \in BOOLEAN : InitRateLimiterCall(d)
  \/ \E u \in UserConfigs : LimiterAcquire(u)
  \/ \E d \in BOOLEAN : StartSchedulerCall(d)
  \/ StartSchedulerResume
  \/ \E k \in Chains : ChainTickDone(k)
  \/ \E k \in Chains : ChainTimerFire(k)
  \/ StopScheduler

Init ==
  /\ now = 0
  /\ JobInit
  /\ GovInit
  /\ IngInit
  /\ ProcInit

Next ==
  \/ Enqueue
  \/ \E w \in Workers : WorkerClaim(w)
  \/ \E w \in Workers : WorkerClaimEmpty(w)
  \/ \E w \in Workers : WorkerWake(w)
  \/ \E w \in Workers : WorkerComplete(w)
  \/ \E w \in Workers : WorkerFail(w)
  \/ \E w \in Workers : Crash(w)
  \/ \E w \in Workers : Restart(w)
  \/ RecoverScript
  \/ CancelWalletJobs
  \/ Tick

Spec == Init /\ [][Next]_vars

\* One job, retried by the workers until it is terminal.
EnqueueOne ==
  /\ Len(jobs) < 1
  /\ Enqueue

RetryClaim(w) == ClaimStep(w, RetryBound)

NextRetry ==
  \/ EnqueueOne
  \/ \E w \in Workers : RetryClaim(w)
  \/ \E w \in Workers : WorkerClaimEmpty(w)
  \/ \E w \in Workers : WorkerWake(w)
  \/ \E w \in Workers : WorkerComplete(w)
  \/ \E w \in Workers : WorkerFail(w)
  \/ \E w \in Workers : Crash(w)
  \/ \E w \in Workers : Restart(w)
  \/ RecoverScript
  \/ Tick

SpecRetry == Init /\ [][NextRetry]_vars

NextGov ==
  \/ \E c \in Workers : AcquireCall(c)
  \/ \E c \in Workers : AcquireLock(c)
  \/ \E c \in Workers : AcquireLimited(c)
  \/ \E c \in Workers : AcquireWait(c)
  \/ \E c \in Workers : AcquireDebit(c)
  \/ \E c \in Workers : WakeRetry(c)
  \/ \E c \in Workers : WakeReturn(c)
  \/ \E c \in Workers : UpstreamRateLimited(c)
  \/ \E c \in Workers : UpstreamOk(c)
  \/ GovTick

SpecGov == Init /\ [][NextGov]_vars

NextWindow ==
  \/ NextGov
  \/ StartWindow

SpecWindow == Init /\ [][NextWindow]_vars

\* The burst scenario: Acquire is invoked back-to-back against a bucket that
\* is full when the observation starts; the upstream is not called, so no
\* response adjusts the balance and no rate limit is reported.
BurstStart ==
  /\ rl.tokens = MAX_TOKENS
  /\ \A c \in Workers : gpc[c] = "idle"
  /\ StartWindow

\* The caller takes the wait that Acquire returned and is free to call again.
BurstReturn(c) ==
  /\ gpc[c] = "acquired"
  /\ gpc' = [gpc EXCEPT ![c] = "idle"]
  /\ UNCHANGED <<now, jobVars, rl, rowLock, seen, wake, winStart, winCount, ingVars, procVars>>

NextBurst ==
  \/ BurstStart
  \/ \E c \in Workers : AcquireCall(c)
  \/ \E c \in Workers : AcquireLock(c)
  \/ \E c \in Workers : AcquireWait(c)
  \/ \E c \in Workers : AcquireDebit(c)
  \/ \E c \in Workers : WakeRetry(c)
  \/ \E c \in Workers : BurstReturn(c)
  \/ GovTick

SpecBurst == Init /\ [][NextBurst]_vars

\* Fairness for the liveness claims: the clock advances, every worker either
\* makes its next step or is killed; a killed worker need not come back and
\* the recover script need not be run.
WorkerProgress(w) ==
  \/ WorkerClaim(w)
  \/ WorkerClaimEmpty(w)
  \/ WorkerWake(w)
  \/ WorkerComplete(w)
  \/ WorkerFail(w)
  \/ Crash(w)

SpecFair ==
  /\ Init
  /\ [][Next]_vars
  /\ WF_vars(Tick)
  /\ \A w \in Workers : WF_vars(WorkerProgress(w))

TypeOK ==
  /\ now \in 0..MaxTime
  /\ rl.tokens \in Int
  /\ \A i \in JobIds : jobs[i].status \in {"queued", "running", "completed", "failed", "canceled"}

\* Jobs of two wallets, two orgs and two types in the table, claimed and
\* completed by the workers, while wallet 1 is unregistered.
CancelKinds == JobKinds \cup { <<"o1", "ingest_wallet", 2>> }

EnqueueAny ==
  /\ Len(jobs) < MaxCancelJobs
  /\ \E k \in CancelKinds : jobs' = Append(jobs, NewJob(k[1], k[2], k[3], NULL))
  /\ UNCHANGED <<now, pc, batch, govVars, ingVars, procVars>>

NextCancel ==
  \/ EnqueueAny
  \/ \E w \in Workers : WorkerClaim(w)
  \/ \E w \in Workers : WorkerComplete(w)
  \/ CancelWalletJobs

SpecCancel == Init /\ [][NextCancel]_vars

\* Two wallets trading on the same day: their ingest jobs and the chained
\* wallet-day and global-day rollups run concurrently on the two workers.
NextRollup ==
  \/ \E wl \in SchedWallets, bf \in BOOLEAN : RegisterCommit(wl, bf)
  \/ \E wl \in SchedWallets : RegisterBackfill(wl)
  \/ \E wl \in SchedWallets : UpstreamTrade(wl)
  \/ \E w \in Workers : WorkerClaim(w)
  \/ \E w \in Workers : IngestBegin(w)
  \/ \E w \in Workers : IngestFetch(w)
  \/ \E w \in Workers : IngestStore(w)
  \/ \E w \in Workers : IngestAdvance(w)
  \/ \E w \in Workers : IngestChain(w)
  \/ \E w \in Workers : IngestReturn(w)
  \/ \E w \in Workers : RollupWalletDay(w)
  \/ \E w \in Workers : RollupGlobalDay(w)

SpecRollup == Init /\ [][NextRollup]_vars

\* Registration, the scheduler tick and the governor (whose bucket is shared
\* with every other caller), before any worker has claimed a job.
NextSched ==
  \/ \E wl \in SchedWallets, bf \in BOOLEAN : RegisterCommit(wl, bf)
  \/ \E wl \in SchedWallets : RegisterBackfill(wl)
  \/ SchedulerTick
  \/ \E c \in Workers : AcquireCall(c)
  \/ \E c \in Workers : AcquireLock(c)
  \/ \E c \in Workers : AcquireDebit(c)
  \/ \E c \in Workers : UpstreamOk(c)

SpecSched == Init /\ [][NextSched]_vars

\* The scheduler next to callers of the governor whose upstream calls may be
\* rate limited, while time passes.
ResumeCaller == "w1"

NextResume ==
  \/ \E wl \in SchedWallets : RegisterCommit(wl, FALSE)
  \/ SchedulerTick
  \/ AcquireCall(ResumeCaller)
  \/ AcquireLock(ResumeCaller)
  \/ AcquireDebit(ResumeCaller)
  \/ UpstreamRateLimited(ResumeCaller)
  \/ GovTick

SpecResume == Init /\ [][NextResume]_vars

\* ----------------------------------------------------------------------
\* distributedAcquire and the connection pool
\* ----------------------------------------------------------------------

\* Connections checked out of the pool, over all frames of all callers.
PoolInUse == Cardinality({ p \in Workers \X (1..PoolSize) : p[2] <= conn[p[1]] })

\* const client = await pool.connect(): resolves when a connection is free.
PoolConnect(c) ==
  /\ gpc[c] = "start"
  /\ PoolInUse < PoolSize
  /\ conn' = [conn EXCEPT ![c] = @ + 1]
  /\ gpc' = [gpc EXCEPT ![c] = "connected"]
  /\ UNCHANGED <<now, jobVars, rl, rowLock, seen, wake, winStart, winCount, ingVars,
                 limiter, sched>>

\* BEGIN; SELECT ... FOR UPDATE on the connection of this frame.
PoolLock(c) ==
  /\ gpc[c] = "connected"
  /\ RowLockFree(c)
  /\ rowLock' = c
  /\ seen' = [seen EXCEPT ![c] = rl]
  /\ gpc' = [gpc EXCEPT ![c] = "locked"]
  /\ UNCHANGED <<now, jobVars, rl, wake, winStart, winCount, ingVars, procVars>>

\* UPDATE ...; COMMIT; return 0: finally { client.release() } of this frame,
\* then every outer frame returns waitTime + ... and releases in its finally.
PoolDebit(c) ==
  /\ gpc[c] = "locked"
  /\ ~RateLimitedNow(seen[c])
  /\ Refilled(seen[c].tokens, now - seen[c].last_refill) >= TOKEN_COST
  /\ rl' = DebitedRow(seen[c])
  /\ rowLock' = NoWorker
  /\ gpc' = [gpc EXCEPT ![c] = "acquired"]
  /\ winCount' = IF InWindow THEN winCount + 1 ELSE winCount
  /\ seen' = [seen EXCEPT ![c] = InitialRow]
  /\ conn' = [conn EXCEPT ![c] = 0]
  /\ UNCHANGED <<now, jobVars, wake, winStart, ingVars, limiter, sched>>

\* The setTimeout of the rate-limit wait fires: return waitTime, and the
\* finally blocks of this frame and of the outer frames release.
PoolWakeReturn(c) ==
  /\ gpc[c] = "sleepLimited"
  /\ now >= wake[c]
  /\ gpc' = [gpc EXCEPT ![c] = "acquired"]
  /\ wake' = [wake EXCEPT ![c] = NULL]
  /\ conn' = [conn EXCEPT ![c] = 0]
  /\ UNCHANGED <<now, jobVars, rl, rowLock, seen, winStart, winCount, ingVars,
                 limiter, sched>>

\* Callers of one process: AcquireLimited and AcquireWait commit and sleep,
\* WakeRetry is the recursive call, which connects again.
NextPool ==
  \/ \E c \in Workers : AcquireCall(c)
  \/ \E c \in Workers : PoolConnect(c)
  \/ \E c \in Workers : PoolLock(c)
  \/ \E c \in Workers : AcquireLimited(c)
  \/ \E c \in Workers : AcquireWait(c)
  \/ \E c \in Workers : PoolDebit(c)
  \/ \E c \in Workers : WakeRetry(c)
  \/ \E c \in Workers : PoolWakeReturn(c)
  \/ \E c \in Workers : UpstreamRateLimited(c)
  \/ \E c \in Workers : UpstreamOk(c)
  \/ GovTick

SpecPool == Init /\ [][NextPool]_vars

\* ----------------------------------------------------------------------
\* unregisterWallet
\* ----------------------------------------------------------------------

\* unregisterWallet(orgId, walletId) for a wallet linked to the org, in one
\* transaction: unlinkWalletFromOrg, deleteCursor, cancelWalletJobs. The
\* cursor row exists exactly while the wallet is linked.
UnregisterWallet(wl) ==
  /\ cursor[wl].exists
  /\ cursor' = [cursor EXCEPT ![wl] = NoCursor]
  /\ jobs' = [ i \in JobIds |->
                 IF CancelMatches(jobs[i], "o1", wl)
                 THEN [jobs[i] EXCEPT !.status = "canceled"]
                 ELSE jobs[i] ]
  /\ UNCHANGED <<now, pc, batch, govVars, registering, upstream, rawFills, walletDay,
                 globalDay, jobDays, run, lastTick, procVars>>

\* Registration, ingestion and unregistration of one wallet.
NextUnregister ==
  \/ \E wl \in Wallets, bf \in BOOLEAN : RegisterCommit(wl, bf)
  \/ \E wl \in Wallets : RegisterBackfill(wl)
  \/ \E wl \in Wallets : UnregisterWallet(wl)
  \/ \E wl \in Wallets : UpstreamTrade(wl)
  \/ \E w \in Workers : WorkerClaim(w)
  \/ \E w \in Workers : IngestBegin(w)
  \/ \E w \in Workers : IngestFetch(w)
  \/ \E w \in Workers : IngestStore(w)
  \/ \E w \in Workers : IngestAdvance(w)
  \/ \E w \in Workers : IngestChain(w)
  \/ \E w \in Workers : IngestReturn(w)
  \/ \E w \in Workers : IngestThrow(w)
  \/ IngestTick

SpecUnregister == Init /\ [][NextUnregister]_vars

\* One wallet through registration, ingestion and the chained rollups: two
\* workers, two backfill jobs, handler errors and retries.
NextIngest ==
  \/ \E wl \in Wallets, bf \in BOOLEAN : RegisterCommit(wl, bf)
  \/ \E wl \in Wallets : RegisterBackfill(wl)
  \/ \E wl \in Wallets : UpstreamTrade(wl)
  \/ \E w \in Workers : WorkerClaim(w)
  \/ \E w \in Workers : IngestBegin(w)
  \/ \E w \in Workers : IngestFetch(w)
  \/ \E w \in Workers : IngestStore(w)
  \/ \E w \in Workers : IngestAdvance(w)
  \/ \E w \in Workers : IngestChain(w)
  \/ \E w \in Workers : IngestReturn(w)
  \/ \E w \in Workers : IngestThrow(w)
  \/ \E w \in Workers : RollupWalletDay(w)
  \/ \E w \in Workers : RollupGlobalDay(w)
  \/ IngestTick

SpecIngest == Init /\ [][NextIngest]_vars

\* Ingestion of one wallet whose upstream calls may fail.
NextUpstream ==
  \/ \E wl \in Wallets, bf \in BOOLEAN : RegisterCommit(wl, bf)
  \/ \E wl \in Wallets : RegisterBackfill(wl)
  \/ \E w \in Workers : WorkerClaim(w)
  \/ \E w \in Workers : IngestBegin(w)
  \/ \E w \in Workers : IngestFetch(w)
  \/ \E w \in Workers : IngestUpstreamError(w)
  \/ \E w \in Workers : IngestStore(w)
  \/ \E w \in Workers : IngestAdvance(w)
  \/ \E w \in Workers : IngestChain(w)
  \/ \E w \in Workers : IngestReturn(w)
  \/ \E w \in Workers : IngestThrow(w)
  \/ IngestTick

SpecUpstream == Init /\ [][NextUpstream]_vars

SpecProcess == Init /\ [][NextProcess]_vars

\* Time passes while handlers run: a worker that holds a batch goes from one
\* job to the next without delay (the for loop of runWorkerLoop), so the
\* clock moves only while each such worker is inside a handler.
LeaseTick ==
  /\ \A w \in Workers : pc[w] = "run" => run[w].step # "none"
  /\ Tick
  /\ now' <= MaxCrashTime

\* Workers that claim batches of ingest jobs and run them one after another.
NextLease ==
  \/ \E wl \in Wallets, bf \in BOOLEAN : RegisterCommit(wl, bf)
  \/ \E wl \in Wallets : RegisterBackfill(wl)
  \/ \E w \in Workers : WorkerClaim(w)
  \/ \E w \in Workers : IngestBegin(w)
  \/ \E w \in Workers : IngestFetch(w)
  \/ \E w \in Workers : IngestStore(w)
  \/ \E w \in Workers : IngestAdvance(w)
  \/ \E w \in Workers : IngestChain(w)
  \/ \E w \in Workers : IngestReturn(w)
  \/ \E w \in Workers : RollupWalletDay(w)
  \/ \E w \in Workers : RollupGlobalDay(w)
  \/ LeaseTick

SpecLease == Init /\ [][NextLease]_vars

\* One registration of the wallet, a worker that may die at any step, and
\* the recovery of its job after the lease.
NextCrash ==
  \/ \E wl \in Wallets, bf \in BOOLEAN : CrashRegister(wl, bf)
  \/ \E wl \in Wallets : RegisterBackfill(wl)
  \/ \E wl \in Wallets : UpstreamTrade(wl)
  \/ \E w \in Workers : WorkerClaim(w)
  \/ \E w \in Workers : IngestBegin(w)
  \/ \E w \in Workers : IngestFetch(w)
  \/ \E w \in Workers : IngestStore(w)
  \/ \E w \in Workers : IngestAdvance(w)
  \/ \E w \in Workers : IngestChain(w)
  \/ \E w \in Workers : IngestReturn(w)
  \/ \E w \in Workers : IngestThrow(w)
  \/ \E w \in Workers : IngestCrash(w)
  \/ \E w \in Workers : Restart(w)
  \/ \E w \in Workers : RollupWalletDay(w)
  \/ \E w \in Workers : RollupGlobalDay(w)
  \/ RecoverScript
  \/ CrashTick

SpecCrash == Init /\ [][NextCrash]_vars

\* ----------------------------------------------------------------------
\* Properties of the job store
\* ----------------------------------------------------------------------

BatchIds(w) == { b.id : b \in batch[w] }

\* A claim call of worker w returns in this step.
ClaimReturns(w) == pc[w] = "claim" /\ pc'[w] \in {"run", "idle"}

\* Row i is abandoned as seen by a claim for org.
Abandoned(i, org) ==
  /\ jobs[i].org_id = org
  /\ jobs[i].run_at <= now
  /\ jobs[i].status = "running"
  /\ jobs[i].lock_expires_at # NULL
  /\ jobs[i].lock_expires_at < now

\* C1: a claim re-leases every abandoned job of its org (running, due, lease
\* expired) to the claimer, unless the LIMIT was used up by rows that are not
\* later than it.
ClaimReclaimsAbandoned ==
  [][ \A w \in Workers : ClaimReturns(w) =>
        \A i \in JobIds : Abandoned(i, ORG_ID[w]) =>
          \/ /\ i \in BatchIds(w)'
             /\ jobs'[i].locked_by = w
             /\ jobs'[i].lock_expires_at = now + LOCK_DURATION_SECONDS * 1000
          \/ /\ BatchIds(w)' # {}
             /\ \A r \in BatchIds(w)' : jobs[r].run_at <= jobs[i].run_at ]_vars

\* C2: no job stays running for ever under an expired lease (the closing
\* clause of "no stuck state": every running job eventually leaves running).
NoStuckState ==
  \A i \in 1..MaxJobs :
    ~<>[](/\ i \in JobIds
          /\ jobs[i].status = "running"
          /\ jobs[i].lock_expires_at # NULL
          /\ jobs[i].lock_expires_at < now)

\* Workers whose lease on row i, as granted by their claim, has not expired.
LeaseHolders(i) ==
  { w \in Workers : \E b \in batch[w] : b.id = i /\ b.lease >= now }

\* C3: a job is never returned to a second claimer while the lease given to
\* an earlier claimer is unexpired: at most one worker holds an unexpired
\* lease on it, and for a running row under an unexpired lease that worker is
\* the row's locked_by.
ExclusiveClaim ==
  \A i \in JobIds :
    /\ Cardinality(LeaseHolders(i)) <= 1
    /\ (jobs[i].status = "running" /\ jobs[i].lock_expires_at >= now) =>
          /\ jobs[i].locked_by \in Workers
          /\ LeaseHolders(i) \subseteq {jobs[i].locked_by}

\* C4: every job has attempts <= max_attempts.
AttemptsWithinMax ==
  \A i \in JobIds : jobs[i].attempts <= jobs[i].max_attempts

\* C5: succeeded, failed and canceled are absorbing.
TerminalAbsorbing ==
  [][ \A i \in JobIds :
        jobs[i].status \in {"succeeded", "failed", "canceled"} =>
          jobs'[i].status = jobs[i].status ]_vars

\* Worker w calls failJob on row i in this step.
FailStep(w, i) ==
  /\ pc[w] = "run"
  /\ pc'[w] \in {"run", "claim"}
  /\ \E b \in batch[w] : b.id = i /\ batch'[w] = batch[w] \ {b}
  /\ jobs'[i].status # "completed"

BackoffSeconds == <<2, 4, 8, 16, 32, 64, 128, 256, 512>>

\* C6: Fail re-queues a job with attempts < max_attempts at now + 2^attempts
\* seconds with the lock cleared and the error recorded, and makes a job with
\* attempts >= max_attempts failed without touching run_at; with
\* max_attempts = 10 the delays after attempts 1..9 are 2, 4, ..., 512 s.
FailBackoff ==
  [][ \A w \in Workers : \A i \in JobIds : FailStep(w, i) =>
        /\ jobs'[i].last_error = "error"
        /\ jobs'[i].locked_by = NoWorker
        /\ jobs'[i].locked_at = NULL
        /\ jobs'[i].lock_expires_at = NULL
        /\ jobs'[i].attempts = jobs[i].attempts
        /\ IF jobs[i].attempts < jobs[i].max_attempts
           THEN /\ jobs'[i].status = "queued"
                /\ jobs'[i].run_at = now + Pow2(jobs[i].attempts) * 1000
                /\ (jobs[i].max_attempts = 10 /\ jobs[i].attempts \in 1..9) =>
                      jobs'[i].run_at - now = BackoffSeconds[jobs[i].attempts] * 1000
           ELSE /\ jobs'[i].status = "failed"
                /\ jobs'[i].run_at = jobs[i].run_at ]_vars

\* A job that failed on each of its ten attempts: re-queued nine times, the
\* last time 512 s ahead, and failed by the tenth.
FailBackoffWitness ==
  \E i \in JobIds :
    /\ jobs[i].status = "failed"
    /\ jobs[i].attempts = 10
    /\ jobs[i].max_attempts = 10
    /\ now = jobs[i].run_at
    /\ now = (2 + 4 + 8 + 16 + 32 + 64 + 128 + 256 + 512) * 1000

\* ----------------------------------------------------------------------
\* Properties of the governor
\* ----------------------------------------------------------------------

\* C7: the shared bucket stays within 0 <= tokens <= maxTokens.
TokensInBounds ==
  /\ 0 <= rl.tokens
  /\ rl.tokens <= MAX_TOKENS

\* Caller c's Acquire debits the bucket in this step.
DebitStep(c) == gpc[c] = "locked" /\ gpc'[c] = "acquired"

\* Caller c's Acquire returns to its caller in this step.
ReturnStep(c) == gpc[c] # "acquired" /\ gpc'[c] = "acquired"

\* The balance of the committed row at the present instant.
Balance == Min(MAX_TOKENS, rl.tokens + (now - rl.last_refill) * REFILL_PER_MS)

\* C8: every debit is taken from the balance of the committed row, refill
\* included, which is at least the cost, and leaves exactly that balance
\* minus the cost: no debit of another caller is lost.
AcquireAtomic ==
  [][ \A c \in Workers : DebitStep(c) =>
        /\ Balance >= TOKEN_COST
        /\ rl'.tokens = Balance - TOKEN_COST
        /\ rl'.last_refill = now ]_vars

\* One caller holds the row lock after an earlier debit while another one is
\* waiting for the lock.
AcquireAtomicWitness ==
  \E c1 \in Workers, c2 \in Workers :
    /\ c1 # c2
    /\ gpc[c1] = "locked"
    /\ gpc[c2] = "start"
    /\ rl.tokens < MAX_TOKENS
    /\ Balance >= TOKEN_COST

\* ceil(60 * refillRate / 20) + maxTokens / 20
WindowLimit ==
  CeilDiv(WINDOW_MS * REFILL_PER_MS, TOKEN_COST) + MAX_TOKENS \div TOKEN_COST

\* C9: at most ceil(60 * refillRate / 20) + maxTokens / 20 = 8 Acquire(20)
\* calls debit tokens within any 60-second window.
WindowBound ==
  /\ WindowLimit = 8
  /\ winCount <= WindowLimit

\* A window that saw the burst of five debits and two more paid by refill.
WindowBoundWitness ==
  /\ winStart # NULL
  /\ winCount = 7

\* Caller c reports an upstream rate limit in this step.
ReportStep(c) ==
  /\ gpc[c] = "acquired"
  /\ gpc'[c] = "idle"
  /\ rl'.is_rate_limited
  /\ rl'.rate_limited_until # rl.rate_limited_until

\* C10: ReportRateLimited at time t leaves is_rate_limited, rate_limited_until
\* = t + 10 s and tokens = 0, and no Acquire returns to its caller while the
\* row is rate limited with rate_limited_until still ahead.
RateLimitBlocksAcquire ==
  [][ /\ \A c \in Workers : ReportStep(c) =>
             /\ rl'.rate_limited_until = now + 10 * 1000
             /\ rl'.tokens = 0
      /\ \A c \in Workers : ReturnStep(c) => ~RateLimitedNow(rl) ]_vars

\* C11: every return of Acquire to its caller, which lets the upstream call
\* proceed, is a step that debited the shared bucket.
AcquireDebitsBeforeUpstream ==
  [][ \A c \in Workers : ReturnStep(c) => DebitStep(c) ]_vars

\* ----------------------------------------------------------------------
\* Properties of Complete and RecoverStuck
\* ----------------------------------------------------------------------

\* Worker w calls completeJob on row i in this step.
CompleteStep(w, i) ==
  /\ pc[w] = "run"
  /\ pc'[w] \in {"run", "claim"}
  /\ \E b \in batch[w] : b.id = i /\ batch'[w] = batch[w] \ {b}
  /\ jobs'[i].status \notin {"queued", "failed"}

JobStatuses == {"queued", "running", "succeeded", "failed", "canceled"}

\* C19: Complete leaves the job succeeded with locked_by, locked_at and
\* lock_expires_at cleared, and every job's status is one of queued, running,
\* succeeded, failed, canceled.
CompleteSucceeds ==
  [][ /\ \A w \in Workers : \A i \in JobIds : CompleteStep(w, i) =>
             /\ jobs'[i].status = "succeeded"
             /\ jobs'[i].locked_by = NoWorker
             /\ jobs'[i].locked_at = NULL
             /\ jobs'[i].lock_expires_at = NULL
      /\ \A i \in 1..Len(jobs') : jobs'[i].status \in JobStatuses ]_vars

\* Row j is running under an expired lease and belongs to org.
Stuck(j, org) ==
  /\ j.org_id = org
  /\ j.status = "running"
  /\ j.lock_expires_at # NULL
  /\ j.lock_expires_at < now

\* The effect RecoverStuck(org) is to have on the table.
RecoverFrame(org) ==
  /\ Len(jobs') = Len(jobs)
  /\ \A i \in JobIds :
       IF Stuck(jobs[i], org)
       THEN /\ jobs'[i].status = "queued"
            /\ jobs'[i].locked_by = NoWorker
            /\ jobs'[i].locked_at = NULL
            /\ jobs'[i].lock_expires_at = NULL
            /\ jobs'[i].attempts = jobs[i].attempts
            /\ jobs'[i].org_id = jobs[i].org_id
       ELSE jobs'[i] = jobs[i]

\* A worker start-up runs the recovery in this step.
StartupRecoverStep(w) == pc[w] = "crashed" /\ pc'[w] = "claim"

\* The recover script runs in this step: the only step that takes a row from
\* running to queued and moves no worker.
ScriptRecoverStep ==
  /\ pc' = pc
  /\ batch' = batch
  /\ Len(jobs') = Len(jobs)
  /\ \E i \in JobIds : jobs[i].status = "running" /\ jobs'[i].status = "queued"

\* C20: RecoverStuck(org), at worker start-up and in the recover script,
\* re-queues exactly the running jobs of the org whose lease has expired,
\* with the lock fields cleared, and changes no other row.
RecoverStuckFrame ==
  [][ /\ \A w \in Workers : StartupRecoverStep(w) => RecoverFrame(ORG_ID[w])
      /\ ScriptRecoverStep => \E org \in Orgs : RecoverFrame(org) ]_vars

\* The recovery has re-queued one job (attempted, unlocked, never failed, due
\* now) and left alone a running job of the org under an unexpired lease.
RecoverStuckFrameWitness ==
  \E i \in JobIds, k \in JobIds :
    /\ jobs[i].status = "queued"
    /\ jobs[i].attempts = 1
    /\ jobs[i].last_error = NoError
    /\ jobs[i].locked_by = NoWorker
    /\ jobs[i].run_at = now
    /\ now > LOCK_DURATION_SECONDS * 1000
    /\ jobs[k].status = "running"
    /\ jobs[k].lock_expires_at >= now
    /\ jobs[k].org_id = jobs[i].org_id

\* ----------------------------------------------------------------------
\* Properties of registration, the scheduler and the ingestion pipeline
\* ----------------------------------------------------------------------

\* The ingest_wallet jobs of org o1 for wallet wl that are queued or running.
PendingFor(wl) == { i \in JobIds : PendingIngest(i, "o1") /\ jobs[i].wallet_id = wl }

\* C12: in every reachable state every (org, wallet) has at most one
\* ingest_wallet job that is queued or running.
OnePendingIngestPerWallet == \A wl \in SchedWallets : Cardinality(PendingFor(wl)) <= 1

\* The ingest_wallet jobs of org o1 that are queued or running.
PendingCount == Cardinality({ i \in JobIds : PendingIngest(i, "o1") })

\* The jobs a step appends to the table.
CreatedIds == (Len(jobs) + 1)..Len(jobs')

\* C13: admission control. A tick creates no more ingest_wallet jobs than
\* min(cap, maxJobsPerRun), none for a wallet with a pending job, and the
\* jobs still pending from earlier ticks count against cap: the tick admits
\* at most cap minus the pending jobs.
AdmissionControl ==
  [][ SchedulerTick =>
        /\ AvailableRequests = 0 => CreatedIds = {}
        /\ Cardinality(CreatedIds) <= Min(AvailableRequests, MAX_JOBS_PER_RUN)
        /\ \A i \in CreatedIds :
             /\ jobs'[i].type = "ingest_wallet"
             /\ jobs'[i].wallet_id \notin WalletIdsWithPendingJobs("o1")
        /\ Cardinality(CreatedIds) <= Max(AvailableRequests - PendingCount, 0) ]_vars

\* C14: cursor_ts of a wallet never decreases, whatever the responses, the
\* retries and the concurrent runs.
CursorMonotone ==
  [][ \A wl \in SchedWallets :
        cursor[wl].exists => cursor'[wl].cursor_ts >= cursor[wl].cursor_ts ]_vars

\* The handler run of worker w ends by throwing in this step: the catch of
\* ingestWallet has run and the worker has recorded the failure on the job.
ThrowStep(w) ==
  /\ run[w].step # "none"
  /\ run'[w].step = "none"
  /\ jobs'[run[w].job].last_error = "error"
  /\ jobs'[run[w].job].status \in {"queued", "failed"}
  /\ jobs'[run[w].job].run_at # jobs[run[w].job].run_at

\* C15: a run that ends by throwing, whatever step raised the error, leaves
\* cursor_ts of its wallet equal to the value the run started with.
CursorKeptOnFailure ==
  [][ \A w \in Workers :
        ThrowStep(w) =>
          cursor'[jobs[run[w].job].wallet_id].cursor_ts = run[w].cursorTs ]_vars

\* No two raw rows with the same (wallet_id, hl_fill_id, ts) in the one org.
UniqueFills ==
  /\ \A r \in BagToSet(rawFills) : CopiesIn(r, rawFills) = 1
  /\ \A r1, r2 \in BagToSet(rawFills) :
       (r1.wallet_id = r2.wallet_id /\ r1.hl_fill_id = r2.hl_fill_id /\ r1.ts = r2.ts)
         => r1 = r2

\* Worker w's handler executes its bulk insert, or its cursor update.
StoreStep(w) == run[w].step = "fetched" /\ run'[w].step = "inserted"
AdvanceStep(w) == run[w].step = "inserted" /\ run'[w].step = "advanced"

\* The rows of worker w's response.
ResponseRows(w) == { FillRow(jobs[run[w].job].wallet_id, f) : f \in run[w].fills }

Quiescent(wl) ==
  \A i \in JobIds :
    (jobs[i].org_id = "o1" /\ jobs[i].wallet_id = wl
       /\ jobs[i].type \in {"ingest_wallet", "rollup_wallet_day"})
      => jobs[i].status \notin {"queued", "running"}

\* The days on which wallet wl has raw fills.
FillDays(wl) == { DayOf(r.ts) : r \in { x \in BagToSet(rawFills) : x.wallet_id = wl } }

\* C17: whenever no ingest_wallet or rollup_wallet_day job of the wallet is
\* queued or running, every day on which the wallet has raw fills has a
\* wallet_day_metrics row equal to the aggregate over the raw fills of that
\* day (spot volume, perp volume, trades_count, last_trade_ts).
MetricsTrackRawFills ==
  \A wl \in Wallets :
    Quiescent(wl) => \A d \in FillDays(wl) : WalletDayAgg(wl, d) \in walletDay

\* Every job is finished, the ingest job among them, and no handler runs.
AllJobsDone ==
  /\ \E i \in JobIds : jobs[i].type = "ingest_wallet"
  /\ \A i \in JobIds : jobs[i].status = "completed"
  /\ \A w \in Workers : run[w].step = "none"
  /\ registering = {}

\* The tables after one undisturbed run of the pipeline over the fills the
\* exchange held at the start.
CleanRunResult(wl) ==
  /\ rawFills = SetToBag({ FillRow(wl, f) : f \in InitialFills })
  /\ cursor[wl].cursor_ts = MaxTs(InitialFills)
  /\ walletDay = { WalletDayAgg(wl, d) : d \in { DayOf(f.ts) : f \in InitialFills } }
  /\ globalDay = { GlobalDayAgg(d) : d \in { DayOf(f.ts) : f \in InitialFills } }

\* C18: crash equivalence. When the ingest job and the rollups it chained
\* have all completed without a handler error, over unchanged upstream data,
\* raw fills, cursor_ts, wallet-day and global-day metrics are those of a run
\* without a crash, wherever a worker was killed on the way.
CrashEquivalence ==
  (/\ AllJobsDone
   /\ \A i \in JobIds : jobs[i].last_error = NoError
   /\ upstream[1] = InitialFills)
    => CleanRunResult(1)

\* ----------------------------------------------------------------------
\* Properties of cancellation, the global rollup, claims and the governor
\* ----------------------------------------------------------------------

\* Some job becomes canceled in this step.
CancelStep == \E i \in JobIds : jobs[i].status # "canceled" /\ jobs'[i].status = "canceled"

\* C21: CancelWalletJobs(org, walletId) sets status = canceled on exactly the
\* jobs with org_id = org, type = ingest_wallet, status = queued and payload
\* wallet_id = walletId; running jobs, jobs of other types, of other wallets
\* and of other orgs stay as they are.
CancelFrame ==
  [][ CancelStep =>
        \E org \in Orgs, walletId \in SchedWallets :
          /\ Len(jobs') = Len(jobs)
          /\ \A i \in JobIds :
               jobs'[i] =
                 IF /\ jobs[i].org_id = org
                    /\ jobs[i].type = "ingest_wallet"
                    /\ jobs[i].status = "queued"
                    /\ jobs[i].wallet_id = walletId
                 THEN [jobs[i] EXCEPT !.status = "canceled"]
                 ELSE jobs[i] ]_vars

\* A queued ingest job of (o1, wallet 1) has been canceled while an ingest
\* job of the same wallet is running and an earlier job of another wallet,
\* type or org is still queued.
CancelFrameWitness ==
  \E i, j, k \in JobIds :
    /\ jobs[i].status = "canceled" /\ jobs[i].org_id = "o1" /\ jobs[i].wallet_id = 1
    /\ jobs[j].status = "running" /\ jobs[j].org_id = "o1"
    /\ jobs[j].type = "ingest_wallet" /\ jobs[j].wallet_id = 1
    /\ k < i
    /\ jobs[k].status = "queued"
    /\ (jobs[k].wallet_id = 2 \/ jobs[k].type = "rollup_wallet_day" \/ jobs[k].org_id = "o2")

\* No rollup_wallet_day or rollup_global_day job of org o1 whose payload
\* covers the day is queued or running.
RollupsSettled(day) ==
  \A i \in JobIds :
    (jobs[i].org_id = "o1" /\ jobs[i].type \in {"rollup_wallet_day", "rollup_global_day"}
       /\ day \in DaysOf(i))
      => jobs[i].status \notin {"queued", "running"}

\* The wallet-day rows of a day, and the days that have any row.
WalletRows(day) == { m \in walletDay : m.day = day }
MetricDays == { m.day : m \in walletDay } \cup { g.day : g \in globalDay }

Returned(w) == { b.id : b \in batch'[w] }

RateLimitedAcquireRetries ==
  [][ \A c \in Workers :
        /\ (gpc[c] = "locked" /\ gpc'[c] = "sleepLimited") =>
             /\ rl' = rl
             /\ wake'[c] = seen[c].rate_limited_until
        /\ (gpc[c] = "sleepLimited" /\ gpc'[c] # "sleepLimited") =>
             /\ now >= wake[c]
             /\ gpc'[c] = "start" ]_vars

\* C25: while the observed window that starts at a full bucket is open:
\* with cost 20, no Acquire sleeps before five
\* debits have been made (the first five calls return a wait of 0); the
\* sixth and every later debit happens only once the refill accrued since
\* the full bucket pays for it; and within 10 s of the full bucket no more
\* than 6 acquires complete.
BurstBehaviour ==
  [][ InWindow =>
        /\ \A c \in Workers :
             /\ (gpc[c] = "locked" /\ gpc'[c] = "sleepTokens") => winCount >= 5
             /\ DebitStep(c) =>
                  MAX_TOKENS + (now - winStart) * REFILL_PER_MS
                    >= (winCount + 1) * TOKEN_COST
        /\ (now' <= winStart + 10 * 1000) => winCount' <= 6 ]_vars

BurstBehaviourWitness ==
  /\ winStart = 0
  /\ winCount = 6
  /\ \E c \in Workers : gpc[c] = "acquired"

\* C26: AvailableRequests returns floor(t / cost), t being the refilled
\* balance capped at maxTokens, and returns 0 on account of rate limiting only
\* while rate_limited_until > now.
AvailableRequestsValue ==
  AvailableRequests =
    IF rl.is_rate_limited /\ rl.rate_limited_until # NULL
       /\ rl.rate_limited_until > now
    THEN 0
    ELSE Min(MAX_TOKENS, rl.tokens + (now - rl.last_refill) * REFILL_PER_MS)
           \div TOKEN_COST

\* C27: the governor's row lock is held by at most one worker at a time, by
\* exactly the caller that is between its SELECT ... FOR UPDATE and its
\* COMMIT, and never by a caller that sleeps: whenever an Acquire sleeps its
\* transaction has been committed, so the row is free for the other workers
\* unless one of them is itself inside its short transaction.
Sleeping(c) == gpc[c] \in {"sleepTokens", "sleepLimited"}
LockNotHeldAcrossSleep ==
  /\ Cardinality({c \in Workers : gpc[c] = "locked"}) <= 1
  /\ \A c \in Workers : (rowLock = c) <=> (gpc[c] = "locked")
  /\ \A c \in Workers : Sleeping(c) => rowLock # c
  /\ (\A c \in Workers : gpc[c] # "locked") => rowLock = NoWorker

LockNotHeldAcrossSleepWitness ==
  \E c, d \in Workers :
    /\ Sleeping(c)
    /\ gpc[d] = "locked"
    /\ rowLock = d

\* C28: UpdateCursor on failure increments error_count by exactly 1, sets
\* status = error and next_run_at = now + min(3600 s, base * 2^min(errorCount, 6))
\* with the cold base of 3600 s, and leaves cursor_ts and last_success_at as
\* they were; every other write to an existing cursor row is a success, which
\* resets error_count to 0 and status to ok.
FailureWrite(old, new) ==
  /\ new.error_count = old.error_count + 1
  /\ new.status = "error"
  /\ new.next_run_at = now + Min(3600, 3600 * Pow2(Min(new.error_count, 6))) * 1000
  /\ new.cursor_ts = old.cursor_ts
  /\ new.last_success_at = old.last_success_at
SuccessWrite(new) ==
  /\ new.error_count = 0
  /\ new.status = "ok"
  /\ new.last_success_at = now
EmptyResponseStep(w) ==
  /\ run[w].step = "fetched"
  /\ run[w].fills = {}
  /\ run'[w].step = "done"

\* C29: a run whose upstream response is empty inserts no fills, enqueues no
\* rollup job and leaves cursor_ts as it is, changing only next_run_at and
\* the success bookkeeping of the wallet's cursor row.
EmptyResponseKeepsCursor ==
  [][ \A w \in Workers :
        EmptyResponseStep(w) =>
          LET wl == jobs[run[w].job].wallet_id
          IN  /\ rawFills' = rawFills
              /\ Len(jobs') = Len(jobs)
              /\ \A v \in SchedWallets \ {wl} : cursor'[v] = cursor[v]
              /\ cursor'[wl].exists = cursor[wl].exists
              /\ cursor'[wl].cursor_ts = cursor[wl].cursor_ts ]_vars

\* Worker w's handler calls the upstream with the start time it computed.
FetchStep(w) == run[w].step = "cursorRead" /\ run'[w].step = "fetched"

\* C30: the startTime passed to the upstream is max(0, cursor_ts - 10 min):
\* it is never negative (as milliseconds since 1970), in particular for a
\* newly registered wallet whose cursor_ts is the epoch.
StartTimeNeverNegative ==
  [][ \A w \in Workers :
        FetchStep(w) => GetTime(StartTime(run[w].cursorTs)) >= 0 ]_vars

\* ----------------------------------------------------------------------
\* Properties of error handling, chaining, leases and the scheduler loop
\* ----------------------------------------------------------------------

\* The upstream call of worker w's run fails in this step.
UpstreamErrorStep(w) == run[w].step = "cursorRead" /\ run'[w].step = "upstreamError"

\* The error is a rate-limit signal: the client's error for an HTTP 429
\* response, or any message that says so.
RateLimitSignal(e) == e.status = 429 \/ IsRateLimitMessage(e.message)

\* C31: when the upstream call fails with a rate-limit signal (the client's
\* error for an HTTP 429 response included) the run reports the rate limit to
\* the governor (bucket drained, rate_limited_until = now + 10 s) before the
\* cursor records the failure; for any other upstream error it does not; the
\* failure is then recorded on the cursor and the job re-queued with backoff.
RateLimitReported ==
  [][ \A w \in Workers :
        /\ UpstreamErrorStep(w) =>
             /\ cursor' = cursor
             /\ IF RateLimitSignal(run'[w].error)
                THEN rl' = MarkedRow(DebitedRow(rl))
                ELSE rl' = DebitedRow(rl)
        /\ (run[w].step = "upstreamError" /\ run'[w].step # "upstreamError") =>
             /\ ThrowStep(w)
             /\ cursor' = CursorFailure(cursor, jobs[run[w].job].wallet_id)
             /\ rl' = rl ]_vars

\* The job appended by this step, if the step appends one.
Appended == jobs'[Len(jobs')]
AppendsJob(type) == Len(jobs') = Len(jobs) + 1 /\ Appended.type = type

\* Worker w's run enqueues its rollup (ingestWallet) / worker w handles the
\* rollup_wallet_day job b.
ChainStep(w) == run[w].step = "advanced" /\ run'[w].step = "done"
WalletRollupStep(w, id) ==
  /\ id \in { b.id : b \in batch[w] }
  /\ jobs[id].type = "rollup_wallet_day"
  /\ jobs[id].status = "running"
  /\ jobs'[id].status = "completed"

GovernorInitializedOnce ==
  [][ /\ limiter.initialized =>
           /\ limiter'.initialized
           /\ limiter'.useDistributed = limiter.useDistributed
           /\ limiter.localTokens # NULL =>
                /\ limiter'.localTokens # NULL
                /\ limiter'.localTokens <= limiter.localTokens
      /\ limiter'.bucket = "local" => ~limiter'.autoInit
      /\ limiter'.bucket # "null" ]_vars

\* C39: at most one tick chain (a tick in flight or its pending timer) exists
\* at any time, whatever the interleaving of startScheduler and stopScheduler
\* calls, and no tick starts while the scheduler is stopped.
SingleTickChain ==
  [][ /\ Cardinality({ k \in Chains : sched'.chains[k] \in {"ticking", "timer"} }) <= 1
      /\ \A k \in Chains :
           (sched.chains[k] # "ticking" /\ sched'.chains[k] = "ticking")
             => sched'.isRunning ]_vars

\* C34: a Complete or Fail issued by a worker for a job it claimed, after its
\* lease expired and the job was recovered or claimed by another worker,
\* leaves the job's row alone: only the worker recorded in locked_by
\* completes or fails a running job.
LeaseOwnership ==
  [][ \A w \in Workers : \A b \in batch[w] :
        (pc[w] = "run" /\ b \notin batch'[w] /\ jobs[b.id].locked_by # w)
          => jobs'[b.id] = jobs[b.id] ]_vars

\* The lease under which worker w holds job id.
LeaseOf(w, id) == (CHOOSE b \in batch[w] : b.id = id).lease

\* C35: a worker that runs the jobs of a claimed batch one after another
\* never starts the handler of a job after its lease on that job has
\* expired, and no job is inside the handlers of two workers at once.
HandlerStartsUnderLease ==
  [][ \A w \in Workers :
        (run[w].step = "none" /\ run'[w].step # "none") =>
          /\ now <= LeaseOf(w, run'[w].job)
          /\ \A v \in Workers \ {w} :
               run'[v].step = "none" \/ run'[v].job # run'[w].job ]_vars

\* C36: once rate_limited_until has passed and the bucket has refilled to at
\* least one request's cost, a scheduler tick that finds a due wallet without
\* a pending job enqueues ingest jobs, whether or not an Acquire was made
\* since the rate limit.
SchedulingResumes ==
  [][ ( /\ lastTick' # lastTick
        /\ ~(rl.rate_limited_until # NULL /\ rl.rate_limited_until > now)
        /\ Refilled(rl.tokens, now - rl.last_refill) >= TOKEN_COST
        /\ DueWallets \ WalletIdsWithPendingJobs("o1") # {} )
      => Len(jobs') > Len(jobs) ]_vars

\* C37: after a rate-limit report drained the bucket at time t, the balance
\* an Acquire computes from the row it has locked at time u >= t (once the
\* back-off is over, when it goes on to the refill), before any
\* further debit, is at most (u - t) * refillRate: the time before the drain
\* is not credited back.
DrainTime(r) == r.rate_limited_until - RATE_LIMIT_BACKOFF_MS

NoCreditBeforeDrain ==
  \A c \in Workers :
    ( /\ gpc[c] = "locked"
      /\ seen[c].is_rate_limited
      /\ seen[c].rate_limited_until # NULL
      /\ ~RateLimitedNow(seen[c]) )
    => Refilled(seen[c].tokens, now - seen[c].last_refill)
         <= (now - DrainTime(seen[c])) * REFILL_PER_MS

\* C38: a distributed Acquire that has to wait holds no pooled connection
\* while it sleeps and retries, so callers that wait never keep the pool's
\* connections from each other.
NoConnectionWhileAsleep ==
  \A c \in Workers : Sleeping(c) => conn[c] = 0

\* C40: while a wallet is unregistered (its link and cursor deleted), an
\* ingest_wallet job for it that was running during the unregistration does
\* not go back to queued, whether by failJob or by a recovery.
Unregistered(wl) == ~cursor[wl].exists /\ wl \notin registering

RunningJobNotRequeued ==
  [][ \A i \in JobIds :
        ( /\ jobs[i].type = "ingest_wallet"
          /\ jobs[i].org_id = "o1"
          /\ jobs[i].status = "running"
          /\ Unregistered(jobs[i].wallet_id)
          /\ Unregistered(jobs[i].wallet_id)' )
        => jobs'[i].status # "queued" ]_vars

====
